---------------------------- MODULE Spec2Model ----------------------------
(***************************************************************************)
(* A model of pytest_gui's test execution engine (core/test_runner.py) and *)
(* of the status correlation of the test tree (ui/test_tree.py).           *)
(*                                                                         *)
(* Strings are sequences of one-character strings, except that a keyword   *)
(* of pytest's output (PASSED, collected, item, ...) is one element: the   *)
(* patterns of the runner treat it as a unit.                              *)
(*                                                                         *)
(* Spec      the runner: the thread that calls start_tests()/stop_tests(), *)
(*           the monitoring threads and the child processes, interleaved   *)
(*           at the granularity of the accesses to the shared attributes.  *)
(* SpecLines the first run of a runner that is never stopped: every sample *)
(*           line, a reader of the progress, observers that may raise.     *)
(* SpecTree  the test tree: update_test_status() applied to an index drawn *)
(*           from a bounded set of paths.                                  *)
(* SpecUI    the runner behind the signals of the main window, whose slots *)
(*           update the tree on the UI thread.                             *)
(* SpecRun   the first run of the main window with two tests in the tree, *)
(*           the lines of the run kept to compare with what it leaves.     *)
(* SpecCmd   _build_command applied to bounded lists of paths and of       *)
(*           arguments.                                                    *)
(* SpecRefresh the test tree with discoveries that replace it.             *)
(* SpecSel   the check boxes of a class and its methods, with clicks and   *)
(*           status updates.                                               *)
(* SpecApply _force_kill_process and run_selected_tests applied to bounded *)
(*           inputs.                                                       *)
(***************************************************************************)
EXTENDS Integers, Sequences, FiniteSets, TLC

\* ------------------------------------------------------------------ bounds
\* Runs (successful or failed launches) one behaviour may start.
MaxRuns == 2
\* Output lines one child may write before it closes its output.
MaxLines == 2
\* Test paths one start_tests() call may be given.
MaxPaths == 1
\* Entries of the tree's path-to-item index.
MaxKeys == 3
\* Nodes below the root of a discovered tree that replaces another.
MaxNodes == 2
\* Test paths, and extra arguments, of one command line.
MaxArgs == 2
\* Descendants of a child at the time it is killed.
MaxDescendants == 2

\* ----------------------------------------------------------------- strings
\* str.__contains__('::')
HasSep(s) == \E i \in 1..(Len(s) - 1) : s[i] = ":" /\ s[i + 1] = ":"

\* Index of the first '::' of s (s contains one).
FirstSep(s) ==
    CHOOSE i \in 1..(Len(s) - 1) :
        /\ s[i] = ":" /\ s[i + 1] = ":"
        /\ \A j \in 1..(i - 1) : ~(s[j] = ":" /\ s[j + 1] = ":")

\* str.split('::'): the parts between the non-overlapping occurrences of
\* '::', found left to right.
RECURSIVE SplitSep(_)
SplitSep(s) ==
    IF HasSep(s)
    THEN LET i == FirstSep(s)
         IN  <<SubSeq(s, 1, i - 1)>> \o SplitSep(SubSeq(s, i + 2, Len(s)))
    ELSE <<s>>

\* parts[-1]
LastPart(parts) == parts[Len(parts)]

\* s.split('/')[-1]: what follows the last '/' of s, all of s without one.
AfterLastSlash(s) ==
    IF \E i \in 1..Len(s) : s[i] = "/"
    THEN LET k == CHOOSE i \in 1..Len(s) :
                      s[i] = "/" /\ \A j \in (i + 1)..Len(s) : s[j] # "/"
         IN  SubSeq(s, k + 1, Len(s))
    ELSE s

\* str.endswith
EndsWith(s, t) ==
    /\ Len(t) <= Len(s)
    /\ SubSeq(s, Len(s) - Len(t) + 1, Len(s)) = t

\* str.startswith at offset i (1-based): t occurs in s at position i.
OccursAt(s, t, i) ==
    /\ i >= 1
    /\ i + Len(t) - 1 <= Len(s)
    /\ SubSeq(s, i, i + Len(t) - 1) = t

\* str.strip() for the blank the model has: leading and trailing spaces go.
RECURSIVE Strip(_)
Strip(s) ==
    IF s = <<>> THEN s
    ELSE IF Head(s) = " " THEN Strip(Tail(s))
    ELSE IF s[Len(s)] = " " THEN Strip(SubSeq(s, 1, Len(s) - 1))
    ELSE s

\* t in s
Contains(s, t) == \E i \in 1..Len(s) : OccursAt(s, t, i)

\* str.rstrip() for the blank the model has: the trailing spaces go (the
\* newline that ends the line read is not part of the model's lines).
RECURSIVE RStrip(_)
RStrip(s) ==
    IF s = <<>> THEN s
    ELSE IF s[Len(s)] = " " THEN RStrip(SubSeq(s, 1, Len(s) - 1))
    ELSE s

\* ----------------------------------------------------------- output parser
\* \s of the patterns.
IsSpace(c) == c = " "

\* \d of the patterns, and int() of a run of digits.
Digits == <<"0", "1", "2", "3", "4", "5", "6", "7", "8", "9">>

IsDigit(c) == \E k \in 1..Len(Digits) : Digits[k] = c

DigitVal(c) == (CHOOSE k \in 1..Len(Digits) : Digits[k] = c) - 1

RECURSIVE IntOf(_)
IntOf(ds) ==
    IF ds = <<>> THEN 0
    ELSE IntOf(SubSeq(ds, 1, Len(ds) - 1)) * Len(Digits) + DigitVal(ds[Len(ds)])

\* [^:]+::[^:]+(?:::[^:]+)* matches all of s: segments without ':' joined
\* by '::', two segments at least, no segment empty.
IsId(s) ==
    /\ Len(s) >= 1
    /\ s[1] # ":"
    /\ s[Len(s)] # ":"
    /\ HasSep(s)
    /\ \A i \in 1..Len(s) :
           s[i] = ":" =>
               ((i > 1 /\ s[i - 1] = ":") # (i < Len(s) /\ s[i + 1] = ":"))

\* The ends e of the prefixes of line that ^(id)\s+word can take as group 1:
\* the prefix is an identifier, one or more blanks follow, then word.
IdEnds(line, word) ==
    { e \in 1..Len(line) :
        /\ IsId(SubSeq(line, 1, e))
        /\ \E j \in (e + 1)..Len(line) :
               /\ \A k \in (e + 1)..j : IsSpace(line[k])
               /\ OccursAt(line, word, j + 1) }

\* pattern.search(line) finds a match.
Matches(line, word) == IdEnds(line, word) # {}

\* match.group(1): the quantifiers are greedy, the longest prefix is taken.
Group1(line, word) ==
    SubSeq(line, 1, CHOOSE e \in IdEnds(line, word) :
                        \A f \in IdEnds(line, word) : f <= e)

\* The literal that follows the identifier in each pattern of test_patterns.
WordStart == <<".", ".", ".">>
WordPassed == <<"PASSED">>
WordFailed == <<"FAILED">>
WordSkipped == <<"SKIPPED">>
WordError == <<"ERROR">>

\* The test_* patterns other than test_start, in the dictionary's order,
\* each with the status _parse_test_result gives it.
StatusPatterns ==
    << [name |-> "test_passed", word |-> WordPassed, status |-> "passed"],
       [name |-> "test_failed", word |-> WordFailed, status |-> "failed"],
       [name |-> "test_skipped", word |-> WordSkipped, status |-> "skipped"],
       [name |-> "test_error", word |-> WordError, status |-> "error"] >>

\* A loop that goes on after a match: the last matching pattern is taken.
LastStatusPattern(line) ==
    IF \E k \in 1..Len(StatusPatterns) : Matches(line, StatusPatterns[k].word)
    THEN CHOOSE k \in 1..Len(StatusPatterns) :
             /\ Matches(line, StatusPatterns[k].word)
             /\ \A j \in (k + 1)..Len(StatusPatterns) :
                    ~Matches(line, StatusPatterns[j].word)
    ELSE 0

\* The first status pattern, in the loop's order, that matches line; 0 without.
FirstStatusPattern(line) ==
    IF \E k \in 1..Len(StatusPatterns) : Matches(line, StatusPatterns[k].word)
    THEN CHOOSE k \in 1..Len(StatusPatterns) :
             /\ Matches(line, StatusPatterns[k].word)
             /\ \A j \in 1..(k - 1) : ~Matches(line, StatusPatterns[j].word)
    ELSE 0

\* A parser that checks the status patterns before the test start.
ParseTestResultStatusFirst(line) ==
    IF FirstStatusPattern(line) # 0
    THEN LET p == StatusPatterns[FirstStatusPattern(line)]
         IN  [kind |-> "finished", id |-> Group1(line, p.word), status |-> p.status]
    ELSE IF Matches(line, WordStart)
    THEN [kind |-> "started", id |-> Group1(line, WordStart), status |-> "running"]
    ELSE [kind |-> "none", id |-> <<>>, status |-> "none"]

\* What _parse_test_result makes of line: a test start (checked first), a
\* test result, or nothing.
ParseTestResult(line) ==
    IF Matches(line, WordStart)
    THEN [kind |-> "started", id |-> Group1(line, WordStart), status |-> "running"]
    ELSE IF FirstStatusPattern(line) # 0
    THEN LET p == StatusPatterns[FirstStatusPattern(line)]
         IN  [kind |-> "finished", id |-> Group1(line, p.word), status |-> p.status]
    ELSE [kind |-> "none", id |-> <<>>, status |-> "none"]

\* 'collected (\d+) item' matches at position i of line with d digits.
CollectedAt(line, i, d) ==
    /\ d >= 1
    /\ i + d + 3 <= Len(line)
    /\ line[i] = "collected"
    /\ line[i + 1] = " "
    /\ \A k \in (i + 2)..(i + d + 1) : IsDigit(line[k])
    /\ line[i + d + 2] = " "
    /\ line[i + d + 3] = "item"

CollectedMatches(line) ==
    \E i \in 1..Len(line) : \E d \in 1..Len(line) : CollectedAt(line, i, d)

\* match.group(1) of the leftmost match.
CollectedDigits(line) ==
    LET i == CHOOSE a \in 1..Len(line) :
                 /\ \E d \in 1..Len(line) : CollectedAt(line, a, d)
                 /\ \A b \in 1..(a - 1) :
                        ~\E d \in 1..Len(line) : CollectedAt(line, b, d)
        d == CHOOSE n \in 1..Len(line) : CollectedAt(line, i, n)
    IN  SubSeq(line, i + 2, i + d + 1)

\* int(match.group(1))
CollectedCount(line) == IntOf(CollectedDigits(line))

\* The condition under which _parse_progress takes line as the current test.
IsCurrentTestHint(line) ==
    /\ HasSep(line)
    /\ ~Contains(line, <<" ", "PASSED">>)
    /\ ~Contains(line, <<" ", "FAILED">>)
    /\ Len(SplitSep(line)) >= 2

\* ------------------------------------------------------------ sample lines
LineStart == <<"f", ":", ":", "t", " ", ".", ".", ".">>
LinePassed == <<"f", ":", ":", "t", " ", "PASSED">>
LineFailed == <<"f", ":", ":", "t", " ", "FAILED">>
LineSkipped == <<"f", ":", ":", "t", " ", "SKIPPED">>
LineError == <<"f", ":", ":", "t", " ", "ERROR">>
LineCollected == <<"collected", " ", "2", " ", "item", "s">>
LineFailedU == <<"f", ":", ":", "u", " ", "FAILED">>
LineCollectedNone == <<"collected", " ", "0", " ", "item", "s">>
LineRaw == <<"=", "=">>
LineFailedThenPassed ==
    <<"f", ":", ":", "t", " ", "FAILED", " ", "x", " ", "PASSED">>
LinePassedThenDots == <<"f", ":", ":", "t", " ", "PASSED", " ", ".", ".", ".">>
LinePassedCollected ==
    <<"f", ":", ":", "t", " ", "PASSED", " ", "collected", " ", "1", " ", "item">>

LineEmpty == <<>>
LineTrailingBlank == <<"=", " ">>

\* The lines a child may write, each without the newline that ends it;
\* RunLines are those of the runner's spec.
Lines ==
    { LineStart, LinePassed, LineFailed, LineSkipped, LineError,
      LineCollected, LineRaw, LineFailedThenPassed, LinePassedThenDots,
      LinePassedCollected, LineEmpty, LineTrailingBlank, LineCollectedNone }

RunLines == {LinePassed, LineRaw}

\* ------------------------------------------------------------------- state
VARIABLES
    state,        \* TestRunner.state
    process,      \* TestRunner.process: 0 is None, k > 0 the k-th child
    progress,     \* TestRunner.progress (inst names the instance)
    notes,        \* the states on_state_changed was called with, in order
    signals,      \* the signals sent to the children, in order
    nruns,        \* the children spawned so far
    child,        \* the children: their life and the lines they have written
    cpc,          \* where the thread calling start_tests/stop_tests stands
    clocal,       \* that thread's local values
    mon,          \* the monitoring threads: position and local values
    obs,          \* what an observer of the calls has recorded
    seen,         \* the counters a reader of get_progress() read last
    item_map,     \* TestTreeWidget.item_map: the paths, in insertion order
    node_status,  \* test_node.status of the item of each path
    treeCall,     \* the last call of update_test_status and what it met
    ui            \* the UI thread: the queued signals and what it applied

runnerVars ==
    <<state, process, progress, notes, signals, nruns, child, cpc, clocal,
      mon, obs, seen>>

treeVars == <<item_map, node_status, treeCall, ui>>

vars == <<runnerVars, treeVars>>

Runs == 1..MaxRuns

\* TestRunnerState
States == {"idle", "running", "stopping", "stopped", "error"}

\* An Optional[List[str]]: None, or the list val.
NoArgs == [some |-> FALSE, val |-> <<>>]
SomeArgs(val) == [some |-> TRUE, val |-> val]

\* 'None' of current_test (no line is empty once stripped).
NoTest == <<>>

\* An instance that starts with one passed test counted.
NewProgressCounted(inst) ==
    [inst |-> inst, total |-> 0, completed |-> 1, passed |-> 1, failed |-> 0,
     skipped |-> 0, error |-> 0, current |-> NoTest]

\* TestRunnerProgress(): a fresh instance, named inst.
NewProgress(inst) ==
    [inst |-> inst, total |-> 0, completed |-> 0, passed |-> 0, failed |-> 0,
     skipped |-> 0, error |-> 0, current |-> NoTest]

\* A fraction: the value of num / den, and the ZeroDivisionError of a
\* division by 0 when den is 0.
Fraction(num, den) == [num |-> num, den |-> den]

\* A progress_percentage that stops at 100.
ProgressPercentageClamped(p) ==
    IF p.total = 0 THEN Fraction(0, 1)
    ELSE IF p.completed > p.total THEN Fraction(100, 1)
    ELSE Fraction(p.completed * 100, p.total)

\* progress_percentage: 0.0 when total_tests is 0, else
\* (completed_tests / total_tests) * 100.
ProgressPercentage(p) ==
    IF p.total = 0 THEN Fraction(0, 1)
    ELSE Fraction(p.completed * 100, p.total)

\* What the reader of a Progress takes from it.
Counters(p) ==
    [completed |-> p.completed, passed |-> p.passed, failed |-> p.failed,
     skipped |-> p.skipped, error |-> p.error]

\* One thing the runner does for a line: the read itself, the call of an
\* observer with its argument, or the assignment of total_tests.
Effect(ev, arg, status) == [ev |-> ev, arg |-> arg, status |-> status]

\* A monitoring thread that has not been started. Besides its position and
\* its local values it records, for the line read last, what the runner did
\* for it (trace) and the counters it found (before).
NoMonitor ==
    [pc |-> "none", h |-> 0, line |-> <<>>, target |-> "idle",
     trace |-> <<>>, before |-> Counters(NewProgress(0))]

RunnerInit ==
    /\ state = "idle"
    /\ process = 0
    /\ progress = NewProgress(0)
    /\ notes = <<>>
    /\ signals = <<>>
    /\ nruns = 0
    /\ child = [k \in Runs |-> [st |-> "none", lines |-> 0]]
    /\ cpc = "idle"
    /\ clocal = [n |-> 0, h |-> 0, paths |-> <<>>, args |-> NoArgs,
                 cmd |-> <<>>, parent |-> "none", children |-> <<>>]
    /\ mon = [k \in Runs |-> NoMonitor]
    /\ obs = [ret |-> "none", stopCalled |-> FALSE, stopAccepted |-> FALSE,
              launchFailed |-> FALSE,
              eof |-> [k \in Runs |-> FALSE], finished |-> 0,
              stopTrace |-> {}, raised |-> FALSE, changes |-> <<>>,
              noteMark |-> 0, sigMark |-> 0, changeMark |-> 0,
              hadResults |-> FALSE, log |-> <<>>]
    /\ seen = Counters(NewProgress(0))

\* -------------------------------------------- TestRunner: _build_command
\* A command with the extra arguments in front of the default ones.
BuildCommandArgsFirst(test_paths, pytest_args) ==
    <<"python", "-m", "pytest">> \o test_paths
      \o (IF pytest_args.some /\ pytest_args.val # <<>>
          THEN pytest_args.val ELSE <<>>)
      \o <<"--tb=short", "-v">>

\* _build_command(test_paths, pytest_args): sys.executable is "python".
BuildCommand(test_paths, pytest_args) ==
    <<"python", "-m", "pytest">> \o test_paths \o <<"--tb=short", "-v">>
      \o (IF pytest_args.some /\ pytest_args.val # <<>>
          THEN pytest_args.val ELSE <<>>)

\* The lists of at most MaxArgs members of a set.
ListsOf(S) == UNION { [1..n -> S] : n \in 0..MaxArgs }

\* 'cmd = self._build_command(test_paths, pytest_args)' of start_tests, for
\* a list of paths and for no, an empty or a longer list of arguments; a
\* path is listed twice and an argument repeats a default one in some.
build_command ==
    /\ cpc = "idle"
    /\ \E test_paths \in ListsOf({"a.py", "b.py::t", "c"}) :
       \E pytest_args \in {NoArgs} \cup
                           {SomeArgs(a) : a \in ListsOf({"-x", "-v", "-k e"})} :
           clocal' = [clocal EXCEPT !.paths = test_paths,
                                    !.args = pytest_args,
                                    !.cmd = BuildCommand(test_paths,
                                                         pytest_args)]
    /\ UNCHANGED <<state, process, progress, notes, signals, nruns, child,
                   cpc, mon, obs, seen, treeVars>>

\* ------------------------------------------------- TestRunner: start_tests
\* A guard that also lets a stopped runner start.
IsIdleOrStopped(st) == st \in {"idle", "stopped"}

\* A guard that also lets a running runner start.
IsIdleOrRunning(st) == st \in {"idle", "running"}

\* The guard of start_tests: 'self.state != TestRunnerState.IDLE' fails.
IsIdle(st) == st = "idle"

\* _set_state(new_state) changes something: 'self.state != new_state'.
StateDiffers(st, new) == st # new

\* start_tests(test_paths, ...) is called with n paths: refused unless the
\* runner is idle, else it goes on to spawn the child.
start_tests(n) ==
    /\ cpc = "idle"
    /\ IF IsIdle(state)
       THEN /\ nruns < MaxRuns
            /\ cpc' = "start_popen"
            /\ clocal' = [clocal EXCEPT !.n = n]
            /\ obs' = [obs EXCEPT !.ret = "none"]
       ELSE /\ obs' = [obs EXCEPT !.ret = "start_refused"]
            /\ UNCHANGED <<cpc, clocal>>
    /\ UNCHANGED <<state, process, progress, notes, signals, nruns, child,
                   mon, seen, treeVars>>

\* subprocess.Popen(...) returns: the child runs, self.process holds it.
start_popen_ok ==
    /\ cpc = "start_popen"
    /\ nruns' = nruns + 1
    /\ process' = nruns + 1
    /\ child' = [child EXCEPT ![nruns + 1] = [st |-> "running", lines |-> 0]]
    /\ cpc' = "start_thread"
    /\ UNCHANGED <<state, progress, notes, signals, clocal, mon, obs, seen,
                   treeVars>>

\* subprocess.Popen(...) raises: the except clause takes over.
start_popen_fails ==
    /\ cpc = "start_popen"
    /\ cpc' = "start_error"
    /\ obs' = [obs EXCEPT !.launchFailed = TRUE]
    /\ UNCHANGED <<state, process, progress, notes, signals, nruns, child,
                   clocal, mon, seen, treeVars>>

\* The progress is replaced by a fresh one whose total is the number of
\* paths, and the monitoring thread is started.
start_thread ==
    /\ cpc = "start_thread"
    /\ progress' = [NewProgress(nruns) EXCEPT !.total = clocal.n]
    /\ mon' = [mon EXCEPT ![nruns] = [NoMonitor EXCEPT !.pc = "check"]]
    /\ cpc' = "start_set"
    /\ clocal' = [clocal EXCEPT !.n = 0]
    /\ obs' = [obs EXCEPT !.finished = 0,
                          !.hadResults = progress.completed > 0]
    /\ UNCHANGED <<state, process, notes, signals, nruns, child, seen,
                   treeVars>>

\* _set_state(RUNNING): the state is written when it differs.
start_set ==
    /\ cpc = "start_set"
    /\ IF StateDiffers(state, "running")
       THEN /\ state' = "running"
            /\ cpc' = "start_notify"
            /\ obs' = [obs EXCEPT !.changes = Append(@, "running")]
       ELSE /\ cpc' = "idle"
            /\ obs' = [obs EXCEPT !.ret = "start_true"]
            /\ UNCHANGED state
    /\ UNCHANGED <<process, progress, notes, signals, nruns, child, clocal,
                   mon, seen, treeVars>>

\* on_state_changed(RUNNING), then 'return True': the runner's part.
start_notify_runner ==
    /\ cpc = "start_notify"
    /\ notes' = Append(notes, "running")
    /\ cpc' = "idle"
    /\ obs' = [obs EXCEPT !.ret = "start_true"]
    /\ UNCHANGED <<state, process, progress, signals, nruns, child, clocal,
                   mon, seen>>

\* on_state_changed(RUNNING) with an observer that leaves the tree alone.
start_notify == start_notify_runner /\ UNCHANGED treeVars

\* except: _set_state(ERROR), the state is written when it differs.
start_error ==
    /\ cpc = "start_error"
    /\ IF StateDiffers(state, "error")
       THEN /\ state' = "error"
            /\ cpc' = "start_error_notify"
            /\ obs' = [obs EXCEPT !.changes = Append(@, "error")]
       ELSE /\ cpc' = "idle"
            /\ obs' = [obs EXCEPT !.ret = "start_false"]
            /\ UNCHANGED state
    /\ UNCHANGED <<process, progress, notes, signals, nruns, child, clocal,
                   mon, seen, treeVars>>

\* on_state_changed(ERROR), then 'return False'.
start_error_notify ==
    /\ cpc = "start_error_notify"
    /\ notes' = Append(notes, "error")
    /\ cpc' = "idle"
    /\ obs' = [obs EXCEPT !.ret = "start_false"]
    /\ UNCHANGED <<state, process, progress, signals, nruns, child, clocal,
                   mon, seen, treeVars>>

\* -------------------------------------------------- TestRunner: stop_tests
\* A guard that also lets a stopping runner be stopped.
IsRunningOrStopping(st) == st \in {"running", "stopping"}

\* The guard of stop_tests: 'self.state != TestRunnerState.RUNNING' fails.
IsRunning(st) == st = "running"

\* The caller's stop_tests() returns.
StopReturns(how) ==
    /\ cpc' = "idle"
    /\ clocal' = [clocal EXCEPT !.h = 0]
    /\ obs' = [obs EXCEPT !.ret = "stop_returned",
                          !.stopTrace = obs.stopTrace \cup how]

\* stop_tests() is called: a warning and nothing else unless running.
stop_tests ==
    /\ cpc = "idle"
    /\ IF IsRunning(state)
       THEN /\ cpc' = "stop_set"
            /\ obs' = [obs EXCEPT !.ret = "none", !.stopTrace = {},
                                  !.stopCalled = TRUE,
                                  !.noteMark = Len(notes),
                                  !.sigMark = Len(signals),
                                  !.changeMark = Len(obs.changes)]
       ELSE /\ obs' = [obs EXCEPT !.ret = "stop_noop", !.stopCalled = TRUE]
            /\ UNCHANGED cpc
    /\ UNCHANGED <<state, process, progress, notes, signals, nruns, child,
                   clocal, mon, seen, treeVars>>

\* _set_state(STOPPING): the state is written when it differs.
stop_set ==
    /\ cpc = "stop_set"
    /\ IF StateDiffers(state, "stopping")
       THEN /\ state' = "stopping"
            /\ cpc' = "stop_notify"
            /\ obs' = [obs EXCEPT !.stopAccepted = TRUE,
                                  !.changes = Append(@, "stopping")]
       ELSE /\ cpc' = "stop_ifproc"
            /\ obs' = [obs EXCEPT !.stopAccepted = TRUE]
            /\ UNCHANGED state
    /\ UNCHANGED <<process, progress, notes, signals, nruns, child, clocal,
                   mon, seen, treeVars>>

\* on_state_changed(STOPPING).
stop_notify ==
    /\ cpc = "stop_notify"
    /\ notes' = Append(notes, "stopping")
    /\ cpc' = "stop_ifproc"
    /\ UNCHANGED <<state, process, progress, signals, nruns, child, clocal,
                   mon, obs, seen, treeVars>>

\* 'if self.process:' and, without one, the return.
stop_ifproc ==
    /\ cpc = "stop_ifproc"
    /\ IF process = 0
       THEN StopReturns({"no_process"})
       ELSE cpc' = "stop_term" /\ UNCHANGED <<obs, clocal>>
    /\ UNCHANGED <<state, process, progress, notes, signals, nruns, child,
                   mon, seen, treeVars>>

\* A request that kills at once.
TermSignalKills(h) == [sig |-> "kill", to |-> h]

\* The signal of self.process.terminate(), to the child h.
TermSignal(h) == [sig |-> "term", to |-> h]

\* The kill of the process tree of the child h: parent.children(recursive=
\* True) are killed, then the parent.
KillSignal(h) == [sig |-> "kill", to |-> h]

\* self.process.terminate(): the graceful request. With self.process None
\* by now, the AttributeError leads to 'except Exception' and the force kill.
stop_term ==
    /\ cpc = "stop_term"
    /\ IF process = 0
       THEN /\ cpc' = "fk_check"
            /\ obs' = [obs EXCEPT !.stopTrace = @ \cup {"force_kill"}]
            /\ UNCHANGED signals
       ELSE /\ signals' = Append(signals, TermSignal(process))
            /\ cpc' = "stop_wait"
            /\ obs' = [obs EXCEPT !.stopTrace = @ \cup {"term"}]
    /\ UNCHANGED <<state, process, progress, notes, nruns, child, clocal, mon,
                   seen, treeVars>>

\* 'self.process.wait(timeout=5.0)' takes the handle to wait on.
stop_wait ==
    /\ cpc = "stop_wait"
    /\ IF process = 0
       THEN /\ cpc' = "fk_check"
            /\ obs' = [obs EXCEPT !.stopTrace = @ \cup {"force_kill"}]
            /\ UNCHANGED clocal
       ELSE /\ cpc' = "stop_waiting"
            /\ clocal' = [clocal EXCEPT !.h = process]
            /\ UNCHANGED obs
    /\ UNCHANGED <<state, process, progress, notes, signals, nruns, child,
                   mon, seen, treeVars>>

\* A wait that returns at once, whatever the child does.
WaitReturnsAtOnce(c) == TRUE

\* The bounded wait ends: the child is seen to have exited.
WaitSeesExit(c) == c.st = "exited"

\* wait(timeout=5.0) returns because the child has exited, and stop_tests
\* returns.
stop_wait_exited ==
    /\ cpc = "stop_waiting"
    /\ WaitSeesExit(child[clocal.h])
    /\ StopReturns({"wait_ok"})
    /\ UNCHANGED <<state, process, progress, notes, signals, nruns, child,
                   mon, seen, treeVars>>

\* wait(timeout=5.0) raises TimeoutExpired: the child is still there when
\* the time is up, and _force_kill_process is called.
stop_wait_timeout ==
    /\ cpc = "stop_waiting"
    /\ child[clocal.h].st # "exited"
    /\ cpc' = "fk_check"
    /\ obs' = [obs EXCEPT !.stopTrace = @ \cup {"timeout", "force_kill"}]
    /\ UNCHANGED <<state, process, progress, notes, signals, nruns, child,
                   clocal, mon, seen, treeVars>>

\* _force_kill_process: 'if not self.process: return'.
fk_check ==
    /\ cpc = "fk_check"
    /\ IF process = 0
       THEN StopReturns({"fk_no_process"})
       ELSE cpc' = "fk_kill" /\ UNCHANGED <<obs, clocal>>
    /\ UNCHANGED <<state, process, progress, notes, signals, nruns, child,
                   mon, seen, treeVars>>

\* psutil.Process(self.process.pid), the kill of the children and of the
\* parent. A failure (self.process None by now, the process gone, access
\* denied) is logged and _force_kill_process returns.
fk_kill ==
    /\ cpc = "fk_kill"
    /\ \/ /\ process # 0
          /\ child[process].st # "exited"
          /\ signals' = Append(signals, KillSignal(process))
          /\ child' = [child EXCEPT ![process] = [st |-> "exited", lines |-> 0]]
          /\ cpc' = "fk_wait"
          /\ obs' = [obs EXCEPT !.stopTrace = @ \cup {"killed"}]
          /\ UNCHANGED clocal
       \/ /\ process # 0
          /\ child[process].st = "exited"
          /\ cpc' = "fk_wait"
          /\ UNCHANGED <<signals, child, obs, clocal>>
       \/ /\ StopReturns({"fk_failed"})
          /\ UNCHANGED <<signals, child>>
    /\ UNCHANGED <<state, process, progress, notes, nruns, mon, seen,
                   treeVars>>

\* 'self.process.wait()' of _force_kill_process: it returns once the child
\* has exited; with self.process None by now the error is logged.
fk_wait ==
    /\ cpc = "fk_wait"
    /\ \/ process = 0 /\ StopReturns({"fk_failed"})
       \/ process # 0 /\ child[process].st = "exited" /\ StopReturns({"fk_waited"})
    /\ UNCHANGED <<state, process, progress, notes, signals, nruns, child,
                   mon, seen, treeVars>>

\* --------------------------------- TestRunner: the kill of the process tree
\* What kill() of a psutil.Process meets: the process is alive and is
\* killed, it is gone (NoSuchProcess), or the kill fails otherwise
\* (AccessDenied). The child itself may also be gone before it is looked
\* up: it has exited and was waited for, which leaves its descendants to
\* themselves (reaped).
\* A kill is a KillSignal to the descendant at i of 'children', and to the
\* child itself for 0.

\* The body of _force_kill_process for a child and the descendants it has,
\* each with what its kill meets: the kills in their order and how the call
\* ends. psutil.Process(pid) of a child that is no more raises
\* NoSuchProcess, which like any failure other than the NoSuchProcess of a
\* kill is logged by 'except Exception' (fk_failed) and ends the call; else
\* the children are killed in their order, then the parent, and the call
\* waits for the child (fk_waited).
ForceKillProcess(parent, children) ==
    LET denied == {i \in 1..Len(children) : children[i] = "denied"}
        upto == IF denied = {} THEN Len(children)
                ELSE (CHOOSE i \in denied : \A j \in denied : i <= j) - 1
        numbered == [i \in 1..upto |-> [i |-> i, fate |-> children[i]]]
        Alive(c) == c.fate = "alive"
        alive == SelectSeq(numbered, Alive)
        killed == [j \in 1..Len(alive) |-> KillSignal(alive[j].i)]
    IN  IF parent = "reaped" THEN [kills |-> <<>>, how |-> {"fk_failed"}]
        ELSE IF denied # {} THEN [kills |-> killed, how |-> {"fk_failed"}]
        ELSE IF parent = "denied" THEN [kills |-> killed, how |-> {"fk_failed"}]
        ELSE IF parent = "gone" THEN [kills |-> killed, how |-> {"fk_waited"}]
        ELSE [kills |-> Append(killed, KillSignal(0)), how |-> {"fk_waited"}]

\* _force_kill_process() of a runner that holds a handle, for a child with
\* up to MaxDescendants descendants; the call returns to stop_tests, which
\* returns.
force_kill_process ==
    /\ cpc = "idle"
    /\ \E parent \in {"alive", "gone", "denied", "reaped"} :
       \E children \in UNION {[1..n -> {"alive", "gone", "denied"}] :
                                 n \in 0..MaxDescendants} :
           LET done == ForceKillProcess(parent, children)
           IN  /\ clocal' = [clocal EXCEPT !.parent = parent,
                                           !.children = children]
               /\ signals' = done.kills
               /\ obs' = [obs EXCEPT !.ret = "stop_returned",
                                     !.stopTrace = done.how]
    /\ UNCHANGED <<state, process, progress, notes, nruns, child, cpc, mon,
                   seen, treeVars>>

\* ------------------------------------------------ TestRunner: get_progress
\* A reader on another thread reads the counters of get_progress().
get_progress ==
    /\ seen' = Counters(progress)
    /\ seen' # seen
    /\ UNCHANGED <<state, process, progress, notes, signals, nruns, child,
                   cpc, clocal, mon, obs, treeVars>>

\* --------------------------------------------- TestRunner: _monitor_process
\* An increment that has no branch for the error status.
IncOutcomeNoError(p, status) ==
    CASE status = "passed" -> [p EXCEPT !.passed = @ + 1]
      [] status = "failed" -> [p EXCEPT !.failed = @ + 1]
      [] status = "skipped" -> [p EXCEPT !.skipped = @ + 1]
      [] OTHER -> p

\* The counter of the matched status is incremented.
IncOutcome(p, status) ==
    CASE status = "passed" -> [p EXCEPT !.passed = @ + 1]
      [] status = "failed" -> [p EXCEPT !.failed = @ + 1]
      [] status = "skipped" -> [p EXCEPT !.skipped = @ + 1]
      [] status = "error" -> [p EXCEPT !.error = @ + 1]
      [] OTHER -> p

\* A completed_tests that goes back to 0 at its second increment.
IncCompletedWraps(p) == [p EXCEPT !.completed = 1 - @]

\* 'self.progress.completed_tests += 1'
IncCompleted(p) == [p EXCEPT !.completed = @ + 1]

\* A _parse_progress that takes the collected count only while total_tests
\* is 0.
ParseProgressFirstCount(p, line) ==
    LET q == IF CollectedMatches(line) /\ p.total = 0
             THEN [p EXCEPT !.total = CollectedCount(line)]
             ELSE p
    IN  IF IsCurrentTestHint(line)
        THEN [q EXCEPT !.current = Strip(line)]
        ELSE q

\* What _parse_progress does to the progress for line: the collected count
\* becomes the total, and a line with '::' and neither ' PASSED' nor
\* ' FAILED' becomes the current test.
ParseProgress(p, line) ==
    LET q == IF CollectedMatches(line)
             THEN [p EXCEPT !.total = CollectedCount(line)]
             ELSE p
    IN  IF IsCurrentTestHint(line)
        THEN [q EXCEPT !.current = Strip(line)]
        ELSE q

\* 'if not self.process: return', before the try.
mon_check(k) ==
    /\ mon[k].pc = "check"
    /\ mon' = [mon EXCEPT ![k].pc = IF process = 0 THEN "returned" ELSE "iter"]
    /\ UNCHANGED <<state, process, progress, notes, signals, nruns, child,
                   cpc, clocal, obs, seen, treeVars>>

\* 'iter(self.process.stdout.readline, '')' takes the stream to read; with
\* self.process None by now the AttributeError leads to the except clause.
mon_iter(k) ==
    /\ mon[k].pc = "iter"
    /\ mon' = [mon EXCEPT ![k] =
                  IF process = 0
                  THEN [@ EXCEPT !.pc = "set", !.target = "error"]
                  ELSE [@ EXCEPT !.pc = "read", !.h = process]]
    /\ UNCHANGED <<state, process, progress, notes, signals, nruns, child,
                   cpc, clocal, obs, seen, treeVars>>

\* readline() returns the line l the child has written; the line is
\* right-stripped and, unless nothing is left of it, handed to
\* _process_output_line, which calls on_output_line first. The runner's
\* part.
mon_read_line_runner(k, l) ==
    /\ mon[k].pc = "read"
    /\ child[mon[k].h].st = "running"
    /\ child[mon[k].h].lines < MaxLines
    /\ LET line == RStrip(l)
       IN  mon' = [mon EXCEPT
                      ![k].pc = IF line # <<>> THEN "parse" ELSE "read",
                      ![k].line = line,
                      ![k].before = Counters(progress),
                      ![k].trace =
                          IF line # <<>>
                          THEN << Effect("readline", l, "none"),
                                  Effect("on_output_line", line, "none") >>
                          ELSE << Effect("readline", l, "none") >>]
    /\ child' = [child EXCEPT ![mon[k].h].lines = @ + 1]
    /\ UNCHANGED <<state, process, progress, notes, signals, nruns, cpc,
                   clocal, seen, treeVars>>

\* The read of a line.
mon_read_line(k, l) == mon_read_line_runner(k, l) /\ UNCHANGED obs

\* The read of a line, with the lines of the run kept for the comparison
\* with what the run leaves behind.
mon_read_line_logged(k, l) ==
    /\ mon_read_line_runner(k, l)
    /\ obs' = [obs EXCEPT !.log = Append(@, RStrip(l))]

\* readline() returns '': the child has closed its output.
mon_read_eof(k) ==
    /\ mon[k].pc = "read"
    /\ child[mon[k].h].st \in {"closed", "exited"}
    /\ mon' = [mon EXCEPT ![k].pc = "wait", ![k].h = 0, ![k].trace = <<>>,
                          ![k].before = NoMonitor.before]
    /\ obs' = [obs EXCEPT !.eof[k] = TRUE]
    /\ UNCHANGED <<state, process, progress, notes, signals, nruns, child,
                   cpc, clocal, seen, treeVars>>

\* readline() raises, as it does with a UnicodeDecodeError for bytes of the
\* child that are not text: the 'except Exception' of _monitor_process
\* takes over.
mon_read_raises(k) ==
    /\ mon[k].pc = "read"
    /\ child[mon[k].h].st = "running"
    /\ child[mon[k].h].lines < MaxLines
    /\ mon' = [mon EXCEPT ![k].pc = "set", ![k].target = "error",
                          ![k].line = <<>>, ![k].h = 0, ![k].trace = <<>>,
                          ![k].before = NoMonitor.before]
    /\ UNCHANGED <<state, process, progress, notes, signals, nruns, child,
                   cpc, clocal, obs, seen, treeVars>>

\* _parse_test_result up to the increment of the status counter: a test
\* start calls on_test_started and returns, a test result increments the
\* counter of its status. The runner's part.
mon_parse_runner(k) ==
    /\ mon[k].pc = "parse"
    /\ LET ev == ParseTestResult(mon[k].line)
       IN  CASE ev.kind = "finished" ->
                  /\ progress' = IncOutcome(progress, ev.status)
                  /\ mon' = [mon EXCEPT ![k].pc = "completed"]
             [] ev.kind = "started" ->
                  /\ mon' = [mon EXCEPT
                                ![k].pc = "progress",
                                ![k].trace = Append(@,
                                    Effect("on_test_started", ev.id, "none"))]
                  /\ UNCHANGED progress
             [] OTHER ->
                  /\ mon' = [mon EXCEPT ![k].pc = "progress"]
                  /\ UNCHANGED progress
    /\ UNCHANGED <<state, process, notes, signals, nruns, child, cpc, clocal,
                   obs, seen>>

\* _parse_test_result with observers that leave the tree alone.
mon_parse(k) == mon_parse_runner(k) /\ UNCHANGED treeVars

\* Calls that tell the progress before the result.
ResultCallsProgressFirst(ev) ==
    << Effect("on_progress_update", <<>>, "none"),
       Effect("on_test_result", ev.id, ev.status) >>

\* The calls that end _parse_test_result for the test result ev:
\* on_test_result, then on_progress_update.
ResultCalls(ev) ==
    << Effect("on_test_result", ev.id, ev.status),
       Effect("on_progress_update", <<>>, "none") >>

\* The rest of _parse_test_result for a test result: completed_tests is
\* incremented, on_test_result and on_progress_update are called.
mon_completed_runner(k) ==
    /\ mon[k].pc = "completed"
    /\ progress' = IncCompleted(progress)
    /\ obs' = [obs EXCEPT !.finished = @ + 1]
    /\ LET ev == ParseTestResult(mon[k].line)
       IN  mon' = [mon EXCEPT
                      ![k].pc = "progress",
                      ![k].trace = @ \o ResultCalls(ev)]
    /\ UNCHANGED <<state, process, notes, signals, nruns, child, cpc, clocal,
                   seen>>

\* The rest of _parse_test_result with observers that leave the tree alone.
mon_completed(k) == mon_completed_runner(k) /\ UNCHANGED treeVars

\* _parse_progress, which calls on_progress_update after it has assigned
\* total_tests, and the line is done.
mon_progress(k) ==
    /\ mon[k].pc = "progress"
    /\ progress' = ParseProgress(progress, mon[k].line)
    /\ mon' = [mon EXCEPT
                  ![k].pc = "read",
                  ![k].line = <<>>,
                  ![k].trace =
                      IF CollectedMatches(mon[k].line)
                      THEN @ \o << Effect("total_tests",
                                          CollectedDigits(mon[k].line), "none"),
                                   Effect("on_progress_update", <<>>, "none") >>
                      ELSE @]
    /\ UNCHANGED <<state, process, notes, signals, nruns, child, cpc, clocal,
                   obs, seen, treeVars>>

\* The calls of the observers.
ObserverCalls ==
    {"on_output_line", "on_test_started", "on_test_result",
     "on_progress_update"}

\* The observer the monitoring thread has called last for its line raises:
\* nothing in _process_output_line or in the loop catches it, and the
\* 'except Exception' of _monitor_process takes over.
mon_raises(k) ==
    /\ mon[k].pc \in {"parse", "progress", "read"}
    /\ mon[k].trace # <<>>
    /\ LET t == mon[k].trace
           last == t[Len(t)]
       IN  /\ last.ev \in ObserverCalls
           /\ mon[k].pc = "progress" => last.ev # "on_output_line"
           /\ mon[k].pc = "read" => t[Len(t) - 1].ev = "total_tests"
    /\ mon' = [mon EXCEPT ![k].pc = "set", ![k].target = "error",
                          ![k].line = <<>>, ![k].h = 0]
    /\ obs' = [obs EXCEPT !.raised = TRUE]
    /\ UNCHANGED <<state, process, progress, notes, signals, nruns, child,
                   cpc, clocal, seen, treeVars>>

\* 'self.process.wait()' takes the handle to wait on; with self.process
\* None by now the AttributeError leads to the except clause.
mon_wait(k) ==
    /\ mon[k].pc = "wait"
    /\ mon' = [mon EXCEPT ![k] =
                  IF process = 0
                  THEN [@ EXCEPT !.pc = "set", !.target = "error"]
                  ELSE [@ EXCEPT !.pc = "waiting", !.h = process]]
    /\ UNCHANGED <<state, process, progress, notes, signals, nruns, child,
                   cpc, clocal, obs, seen, treeVars>>

\* A wait that returns as soon as the child has closed its output.
ProcessOutputEnded(c) == c.st \in {"closed", "exited"}

\* 'self.process.wait()' of the monitoring thread can return.
ProcessExited(c) == c.st = "exited"

\* wait() returns: the child has exited.
mon_waited(k) ==
    /\ mon[k].pc = "waiting"
    /\ ProcessExited(child[mon[k].h])
    /\ mon' = [mon EXCEPT ![k].pc = "final", ![k].h = 0]
    /\ UNCHANGED <<state, process, progress, notes, signals, nruns, child,
                   cpc, clocal, obs, seen, treeVars>>

\* The final state _monitor_process chooses for the state it reads.
FinalState(st) == IF st = "stopping" THEN "stopped" ELSE "idle"

\* 'if self.state == TestRunnerState.STOPPING:' chooses the final state.
mon_final(k) ==
    /\ mon[k].pc = "final"
    /\ mon' = [mon EXCEPT ![k].pc = "set", ![k].target = FinalState(state)]
    /\ UNCHANGED <<state, process, progress, notes, signals, nruns, child,
                   cpc, clocal, obs, seen, treeVars>>

\* _set_state(STOPPED | IDLE | ERROR): the state is written when it differs.
mon_set(k) ==
    /\ mon[k].pc = "set"
    /\ IF StateDiffers(state, mon[k].target)
       THEN /\ state' = mon[k].target
            /\ mon' = [mon EXCEPT ![k].pc = "notify"]
            /\ obs' = [obs EXCEPT !.changes = Append(@, mon[k].target)]
       ELSE /\ mon' = [mon EXCEPT ![k].pc = "finally"]
            /\ UNCHANGED <<state, obs>>
    /\ UNCHANGED <<process, progress, notes, signals, nruns, child, cpc,
                   clocal, seen, treeVars>>

\* on_state_changed(new_state) of the monitoring thread: the runner's part.
mon_notify_runner(k) ==
    /\ mon[k].pc = "notify"
    /\ notes' = Append(notes, mon[k].target)
    /\ mon' = [mon EXCEPT ![k].pc = "finally"]
    /\ UNCHANGED <<state, process, progress, signals, nruns, child, cpc,
                   clocal, obs, seen>>

\* on_state_changed(new_state) with an observer that leaves the tree alone.
mon_notify(k) == mon_notify_runner(k) /\ UNCHANGED treeVars

\* finally: 'self.process = None'.
mon_finally(k) ==
    /\ mon[k].pc = "finally"
    /\ process' = 0
    /\ mon' = [mon EXCEPT ![k] = [NoMonitor EXCEPT !.pc = "done"]]
    /\ UNCHANGED <<state, progress, notes, signals, nruns, child, cpc, clocal,
                   obs, seen, treeVars>>

\* ------------------------------------------------------------ the children
\* A child closes its output while it goes on running.
child_closes(k) ==
    /\ child[k].st = "running"
    /\ child' = [child EXCEPT ![k] = [st |-> "closed", lines |-> 0]]
    /\ UNCHANGED <<state, process, progress, notes, signals, nruns, cpc,
                   clocal, mon, obs, seen, treeVars>>

\* A child exits, by itself or on the termination request.
child_exits(k) ==
    /\ child[k].st \in {"running", "closed"}
    /\ child' = [child EXCEPT ![k] = [st |-> "exited", lines |-> 0]]
    /\ UNCHANGED <<state, process, progress, notes, signals, nruns, cpc,
                   clocal, mon, obs, seen, treeVars>>

\* ------------------------------------------------------- the runner's spec
\* The UI thread with no signal queued, for a tree of n items.
NoSignals(n) == [q |-> <<>>, epoch |-> 0, by |-> [i \in 1..n |-> 0]]

TreeIdle ==
    /\ item_map = <<>>
    /\ node_status = <<>>
    /\ treeCall = [id |-> <<>>, status |-> "pending", pre |-> <<>>,
                   tier |-> "init"]
    /\ ui = NoSignals(0)

Init == RunnerInit /\ TreeIdle

Next ==
    \/ \E n \in 0..MaxPaths : start_tests(n)
    \/ start_popen_ok
    \/ start_popen_fails
    \/ start_thread
    \/ start_set
    \/ start_notify
    \/ start_error
    \/ start_error_notify
    \/ stop_tests
    \/ stop_set
    \/ stop_notify
    \/ stop_ifproc
    \/ stop_term
    \/ stop_wait
    \/ stop_wait_exited
    \/ stop_wait_timeout
    \/ fk_check
    \/ fk_kill
    \/ fk_wait
    \/ \E k \in Runs :
           \/ mon_check(k)
           \/ mon_iter(k)
           \/ \E l \in RunLines : mon_read_line(k, l)
           \/ mon_read_eof(k)
           \/ mon_parse(k)
           \/ mon_completed(k)
           \/ mon_progress(k)
           \/ mon_wait(k)
           \/ mon_waited(k)
           \/ mon_final(k)
           \/ mon_set(k)
           \/ mon_notify(k)
           \/ mon_finally(k)
           \/ child_closes(k)
           \/ child_exits(k)

Spec == Init /\ [][Next]_vars

\* The first run of a runner that is never stopped, with every sample
\* line, a reader of the progress and observers that may raise.
NextLines ==
    \/ \E n \in 0..MaxPaths : nruns = 0 /\ start_tests(n)
    \/ start_popen_ok
    \/ start_thread
    \/ start_set
    \/ start_notify
    \/ get_progress
    \/ \E k \in Runs :
           \/ mon_check(k)
           \/ mon_iter(k)
           \/ \E l \in Lines : mon_read_line(k, l)
           \/ mon_read_eof(k)
           \/ mon_raises(k)
           \/ mon_parse(k)
           \/ mon_completed(k)
           \/ mon_progress(k)
           \/ mon_wait(k)
           \/ mon_waited(k)
           \/ mon_final(k)
           \/ mon_set(k)
           \/ mon_notify(k)
           \/ mon_finally(k)
           \/ child_closes(k)
           \/ child_exits(k)

SpecLines == Init /\ [][NextLines]_vars

\* The command lines of a runner.
NextCmd == build_command

SpecCmd == Init /\ [][NextCmd]_vars

\* ------------------------------------------- TestTreeWidget: the test tree
\* Sample paths of tree nodes: tests of a file b in two directories, a test
\* of the same name in other files, and a file node.
PathABx == <<"a", "/", "b", ":", ":", "x">>
PathCBx == <<"c", "/", "b", ":", ":", "x">>
PathDx == <<"d", ":", ":", "x">>
PathXx == <<"x", ":", ":", "x">>
PathAB == <<"a", "/", "b">>

Keys == {PathABx, PathCBx, PathDx, PathXx, PathAB}

\* Sample identifiers update_test_status is called with.
IdZBx == <<"z", "/", "b", ":", ":", "x">>
IdQx == <<"q", ":", ":", "x">>
IdX == <<"x">>
IdQn == <<"q", ":", ":", "n">>

Ids == {PathABx, PathAB, IdZBx, IdQx, IdX, IdQn}

\* The statuses the runner's events carry: RUNNING for a started test, the
\* outcome for a result.
EventStatuses == {"running", "passed"}

\* The indexes create_tree_item can build: paths in insertion order, no
\* path twice (item_map is a dict).
Indexes ==
    { m \in UNION { [1..n -> Keys] : n \in 0..MaxKeys } :
        \A i, j \in 1..Len(m) : i # j => m[i] # m[j] }

\* TestNode.is_test_node() of the node of a path: the class and function
\* nodes, whose paths discovery builds with '::'.
IsTestNode(path) == HasSep(path)

\* A lookup that never finds the path: the exact match is skipped.
ExactItemSkipped(m, test_path) == 0

\* 'self.item_map.get(test_path)': the position of the path, 0 for None.
ExactItem(m, test_path) ==
    IF \E i \in 1..Len(m) : m[i] = test_path
    THEN CHOOSE i \in 1..Len(m) : m[i] = test_path
    ELSE 0

\* A partial match that compares the function names and not the file names.
PartialMatchNameOnly(test_path, stored_path) ==
    /\ HasSep(test_path)
    /\ HasSep(stored_path)
    /\ LastPart(SplitSep(test_path)) = LastPart(SplitSep(stored_path))

\* The condition of the partial match: both contain '::', the last parts
\* (function name) are equal and the file names are equal.
PartialMatch(test_path, stored_path) ==
    /\ HasSep(test_path)
    /\ HasSep(stored_path)
    /\ LET test_parts == SplitSep(test_path)
           stored_parts == SplitSep(stored_path)
       IN  /\ Len(test_parts) >= 2
           /\ Len(stored_parts) >= 2
           /\ LastPart(test_parts) = LastPart(stored_parts)
           /\ AfterLastSlash(test_parts[1]) = AfterLastSlash(stored_parts[1])

\* 'for stored_path, item in self.item_map.items(): if ...: return': the
\* first of the matching positions, in the order of the dict; 0 without one.
FirstItem(matching) ==
    IF matching # {}
    THEN CHOOSE i \in matching : \A j \in matching : i <= j
    ELSE 0

\* A test name that is the whole path: the split is forgotten.
TestNameWhole(test_path) == test_path

\* 'test_path.split('::')[-1] if '::' in test_path else test_path'
TestName(test_path) ==
    IF HasSep(test_path) THEN LastPart(SplitSep(test_path)) ELSE test_path

\* 'stored_path.endswith(f"::{test_name}")'
NameMatch(test_name, stored_path) ==
    EndsWith(stored_path, <<":", ":">> \o test_name)

\* A lookup that falls back to the first item when no match is found.
FindItemOrFirst(m, test_path) ==
    LET exact == ExactItem(m, test_path)
        partial == FirstItem({i \in 1..Len(m) :
                                 PartialMatch(test_path, m[i])})
        test_name == TestName(test_path)
        name == FirstItem({i \in 1..Len(m) : NameMatch(test_name, m[i])})
    IN  IF exact # 0 THEN [tier |-> "exact", item |-> exact]
        ELSE IF partial # 0 THEN [tier |-> "partial", item |-> partial]
        ELSE IF name # 0 THEN [tier |-> "name", item |-> name]
        ELSE [tier |-> "none", item |-> IF m # <<>> THEN 1 ELSE 0]

\* The item update_test_status updates for test_path and the match that
\* found it: exact, then partial, then by name; item 0 when none is found.
FindItem(m, test_path) ==
    LET exact == ExactItem(m, test_path)
        partial == FirstItem({i \in 1..Len(m) :
                                 PartialMatch(test_path, m[i])})
        test_name == TestName(test_path)
        name == FirstItem({i \in 1..Len(m) : NameMatch(test_name, m[i])})
    IN  IF exact # 0 THEN [tier |-> "exact", item |-> exact]
        ELSE IF partial # 0 THEN [tier |-> "partial", item |-> partial]
        ELSE IF name # 0 THEN [tier |-> "name", item |-> name]
        ELSE [tier |-> "none", item |-> 0]

\* update_test_status(test_path, status)
update_test_status(test_path, status) ==
    LET found == FindItem(item_map, test_path)
    IN  /\ node_status' =
               IF found.item # 0
               THEN [node_status EXCEPT ![found.item] = status]
               ELSE node_status
        /\ treeCall' = [id |-> test_path, status |-> status,
                        pre |-> node_status, tier |-> found.tier]
        /\ UNCHANGED <<item_map, ui, runnerVars>>

\* reset_test_statuses(): every test node goes back to PENDING.
reset_test_statuses ==
    /\ node_status' =
           [i \in 1..Len(item_map) |->
               IF IsTestNode(item_map[i]) THEN "pending" ELSE node_status[i]]
    /\ treeCall' = [id |-> <<>>, status |-> "pending", pre |-> node_status,
                    tier |-> "reset"]
    /\ UNCHANGED <<item_map, ui, runnerVars>>

\* 'self.item_map[test_node.path] = item' on the keys m of the dict: a new
\* key comes last, a key the dict has keeps its place (and gets the item).
DictSet(m, key) ==
    IF \E i \in 1..Len(m) : m[i] = key THEN m ELSE Append(m, key)

\* The keys after create_tree_item has stored the nodes, in the order of
\* its traversal, into a dict with the keys m.
RECURSIVE StoreAll(_, _)
StoreAll(m, nodes) ==
    IF nodes = <<>> THEN m
    ELSE StoreAll(DictSet(m, Head(nodes)), Tail(nodes))

\* A populate_tree without 'self.item_map.clear()'.
PopulateTreeNoClear(old, nodes) == StoreAll(old, nodes)

\* populate_tree over the dict with the keys old, for the paths of the
\* nodes below the root in the order of the traversal: the dict is cleared
\* and every node is stored under its path.
PopulateTree(old, nodes) == StoreAll(<<>>, nodes)

\* The paths of the nodes below a root discovery can return, in the order
\* of the traversal: discovery builds a node for every definition of a
\* test, so that a test defined twice in its file gives its path to two
\* nodes.
Trees == UNION { [1..n -> Keys] : n \in 0..MaxNodes }

\* set_root_node(root_node) after a discovery, whose nodes are PENDING.
set_root_node(nodes) ==
    /\ item_map' = PopulateTree(item_map, nodes)
    /\ node_status' = [i \in 1..Len(item_map') |-> "pending"]
    /\ treeCall' = [id |-> <<>>, status |-> "pending", pre |-> node_status,
                    tier |-> "populate", old |-> item_map, nodes |-> nodes]
    /\ ui' = NoSignals(Len(item_map'))
    /\ UNCHANGED runnerVars

\* populate_tree has built the index of a discovered tree; every node is
\* PENDING.
TreeInit ==
    /\ item_map \in Indexes
    /\ node_status = [i \in 1..Len(item_map) |-> "pending"]
    /\ treeCall = [id |-> <<>>, status |-> "pending", pre |-> node_status,
                   tier |-> "init"]
    /\ ui = NoSignals(Len(item_map))

InitTree == RunnerInit /\ TreeInit

NextTree ==
    \/ \E p \in Ids : \E st \in EventStatuses : update_test_status(p, st)
    \/ reset_test_statuses

SpecTree == InitTree /\ [][NextTree]_vars

\* The tree with discoveries that replace it.
NextRefresh ==
    \/ \E p \in Ids : \E st \in EventStatuses : update_test_status(p, st)
    \/ \E nodes \in Trees : set_root_node(nodes)

SpecRefresh == InitTree /\ [][NextRefresh]_vars

\* The check boxes of the tree. The items of a class and of its two methods
\* are in the index; ui.check is the check state of column 0 of each item
\* and ui.selected the 'selected' of its node. The QTreeWidget emits
\* itemChanged when the text or the check state of an item is set, and
\* setup_connections has connected on_item_changed to it.

\* on_item_changed(item, 0) for the item at i of the index m, on the check
\* boxes w: the node takes the check state of its item, the children take
\* it too (update_children_selection), and the parent is set from the check
\* states of its children (update_parent_selection). The tree is two levels
\* deep, so that both recursions end after one level.
OnItemChanged(w, m, i) ==
    LET IsChild(j, k) ==
            /\ Len(m[j]) > Len(m[k])
            /\ SubSeq(m[j], 1, Len(m[k]) + 2) = m[k] \o <<":", ":">>
        is_checked == w.check[i] = "checked"
        check_state == IF is_checked THEN "checked" ELSE "unchecked"
        children == {j \in 1..Len(m) : IsChild(j, i)}
        w1 == [w EXCEPT
                 !.check = [j \in 1..Len(m) |->
                              IF j \in children THEN check_state ELSE @[j]],
                 !.selected = [j \in 1..Len(m) |->
                                 IF j \in children \cup {i} THEN is_checked
                                 ELSE @[j]]]
        parents == {k \in 1..Len(m) : IsChild(i, k)}
    IN  IF parents = {} THEN w1
        ELSE LET parent_item == CHOOSE k \in parents : TRUE
                 siblings == {j \in 1..Len(m) : IsChild(j, parent_item)}
                 checked == {j \in siblings : w1.check[j] = "checked"}
                 partial == {j \in siblings : w1.check[j] = "partial"}
                 parent_state ==
                     IF partial # {} THEN "partial"
                     ELSE IF checked = {} THEN "unchecked"
                     ELSE IF checked = siblings THEN "checked"
                     ELSE "partial"
             IN  [w1 EXCEPT !.check[parent_item] = parent_state,
                            !.selected[parent_item] =
                                parent_state = "checked"]

\* update_from_node() of the item at i, which is setup_item(): setText
\* changes the text of column 0 (the icon goes), setCheckState sets the
\* check box from the 'selected' of the node, and set_icon changes the text
\* of column 0 again; on_item_changed runs for each change.
UpdateFromNode(w, m, i) ==
    LET shown == OnItemChanged(w, m, i)
        set == [shown EXCEPT !.check[i] = IF shown.selected[i]
                                          THEN "checked" ELSE "unchecked"]
    IN  OnItemChanged(set, m, i)

\* The user clicks the check box of the item at i: the view checks a box
\* that is not checked and unchecks one that is, and on_item_changed runs.
item_clicked(i) ==
    /\ ui' = OnItemChanged(
                 [ui EXCEPT !.check[i] = IF @ = "checked" THEN "unchecked"
                                         ELSE "checked"],
                 item_map, i)
    /\ treeCall' = [id |-> <<>>, status |-> "pending", pre |-> node_status,
                    tier |-> "click"]
    /\ UNCHANGED <<item_map, node_status, runnerVars>>

\* update_test_status(test_path, status) with the check boxes: the item
\* found is updated from its node.
update_test_status_item(test_path, status) ==
    LET found == FindItem(item_map, test_path)
    IN  /\ node_status' =
               IF found.item # 0
               THEN [node_status EXCEPT ![found.item] = status]
               ELSE node_status
        /\ treeCall' = [id |-> test_path, status |-> status,
                        pre |-> node_status, tier |-> found.tier]
        /\ ui' = IF found.item # 0
                 THEN UpdateFromNode(ui, item_map, found.item)
                 ELSE ui
        /\ UNCHANGED <<item_map, runnerVars>>

\* The tree of a class x of the file a/b with the methods m and n, nothing
\* selected and every node PENDING.
InitSel ==
    /\ RunnerInit
    /\ item_map = <<PathABx, PathABx \o <<":", ":", "m">>,
                    PathABx \o <<":", ":", "n">>>>
    /\ node_status = [i \in 1..3 |-> "pending"]
    /\ treeCall = [id |-> <<>>, status |-> "pending", pre |-> node_status,
                   tier |-> "init"]
    /\ ui = [q |-> <<>>, epoch |-> 0, by |-> [i \in 1..3 |-> 0],
             check |-> [i \in 1..3 |-> "unchecked"],
             selected |-> [i \in 1..3 |-> FALSE]]

\* The events name the class, a method or a test of another file.
NextSel ==
    \/ \E i \in 1..Len(item_map) : item_clicked(i)
    \/ \E p \in {item_map[i] : i \in 1..Len(item_map)} \cup {IdQn} :
          \E st \in EventStatuses : update_test_status_item(p, st)

SpecSel == InitSel /\ [][NextSel]_vars

\* ------------------------------------ MainWindow: the runner behind signals
\* MainWindow wires the callbacks of the runner to the emit of the signals
\* of a TestRunnerSignalBridge and the signals to its slots. A signal
\* emitted on the UI thread, which calls start_tests(), runs its slot at
\* once; a signal emitted on a monitoring thread is queued, and the UI
\* thread runs its slot when it is back in its event loop. The slots of
\* output_line and progress_updated do not touch the tree and are left out.

\* The identifier of the lines LineStart and LinePassed, the one test of the
\* tree.
TestFT == <<"f", ":", ":", "t">>

\* The lines the children write in the UI's spec.
UILines == {LineStart, LinePassed}

\* A signal of the bridge, emitted by the thread of run r.
Signal(sig, id, status, r) ==
    [sig |-> sig, id |-> id, status |-> status, run |-> r]

\* The signal is queued for the UI thread.
Post(e) == ui' = [ui EXCEPT !.q = Append(@, e)]

\* The statuses update_test_status leaves for test_path and status.
StatusesAfter(test_path, status) ==
    LET found == FindItem(item_map, test_path)
    IN  IF found.item # 0
        THEN [node_status EXCEPT ![found.item] = status]
        ELSE node_status

\* The statuses reset_test_statuses leaves.
StatusesReset ==
    [i \in 1..Len(item_map) |->
        IF IsTestNode(item_map[i]) THEN "pending" ELSE node_status[i]]

\* A slot that resets the statuses for ERROR as well.
ResetsStatusesOnError(st) == st \in {"running", "error"}

\* 'if state == TestRunnerState.RUNNING:' is the one branch of
\* on_test_runner_state_changed that calls reset_test_statuses.
ResetsStatuses(st) == st = "running"

\* The slot on_test_runner_state_changed for the state st notified by run r:
\* RUNNING resets the statuses of the tree; rest is what becomes of the
\* queue.
StateChangedSlot(st, r, rest) ==
    IF ResetsStatuses(st)
    THEN /\ node_status' = StatusesReset
         /\ treeCall' = [id |-> <<>>, status |-> "pending",
                         pre |-> node_status, tier |-> "reset"]
         /\ ui' = [q |-> rest, epoch |-> r,
                   by |-> [i \in 1..Len(item_map) |-> 0]]
    ELSE /\ ui' = [ui EXCEPT !.q = rest]
         /\ UNCHANGED <<node_status, treeCall>>

\* The slots on_test_started (set_test_running) and on_test_result: both
\* end in update_test_status.
TestEventSlot(e, rest) ==
    LET found == FindItem(item_map, e.id)
    IN  /\ node_status' = StatusesAfter(e.id, e.status)
        /\ treeCall' = [id |-> e.id, status |-> e.status,
                        pre |-> node_status, tier |-> found.tier]
        /\ ui' = [ui EXCEPT
                     !.q = rest,
                     !.by = IF found.item # 0
                            THEN [@ EXCEPT ![found.item] = e.run]
                            ELSE @]

\* run_selected_tests(): the UI thread calls start_tests() with the tests
\* selected, one at least.
run_selected_tests == \E n \in 1..MaxPaths : start_tests(n)

\* _set_state(RUNNING) of start_tests() emits state_changed on the UI
\* thread: the slot runs before start_tests() returns.
start_notify_ui ==
    /\ start_notify_runner
    /\ StateChangedSlot("running", nruns, ui.q)
    /\ UNCHANGED item_map

\* on_test_started emits test_started on the monitoring thread.
mon_parse_ui(k) ==
    /\ mon_parse_runner(k)
    /\ LET ev == ParseTestResult(mon[k].line)
       IN  IF ev.kind = "started"
           THEN Post(Signal("test_started", ev.id, "running", k))
           ELSE UNCHANGED ui
    /\ UNCHANGED <<item_map, node_status, treeCall>>

\* on_test_result emits test_result on the monitoring thread.
mon_completed_ui(k) ==
    /\ mon_completed_runner(k)
    /\ LET ev == ParseTestResult(mon[k].line)
       IN  Post(Signal("test_result", ev.id, ev.status, k))
    /\ UNCHANGED <<item_map, node_status, treeCall>>

\* on_state_changed emits state_changed on the monitoring thread.
mon_notify_ui(k) ==
    /\ mon_notify_runner(k)
    /\ Post(Signal("state_changed", <<>>, mon[k].target, k))
    /\ UNCHANGED <<item_map, node_status, treeCall>>

\* The UI thread, back in its event loop, runs the slot of the signal
\* queued first.
qt_dispatch ==
    /\ cpc = "idle"
    /\ ui.q # <<>>
    /\ LET e == Head(ui.q)
       IN  IF e.sig = "state_changed"
           THEN StateChangedSlot(e.status, e.run, Tail(ui.q))
           ELSE TestEventSlot(e, Tail(ui.q))
    /\ UNCHANGED <<item_map, runnerVars>>

\* The window after the discovery of one test, the runner just built.
InitUI ==
    /\ RunnerInit
    /\ item_map = <<TestFT>>
    /\ node_status = <<"pending">>
    /\ treeCall = [id |-> <<>>, status |-> "pending", pre |-> node_status,
                   tier |-> "init"]
    /\ ui = NoSignals(1)

NextUI ==
    \/ run_selected_tests
    \/ start_popen_ok
    \/ start_thread
    \/ start_set
    \/ start_notify_ui
    \/ qt_dispatch
    \/ \E k \in Runs :
           \/ mon_check(k)
           \/ mon_iter(k)
           \/ \E l \in UILines : mon_read_line(k, l)
           \/ mon_read_raises(k)
           \/ mon_read_eof(k)
           \/ mon_parse_ui(k)
           \/ mon_completed_ui(k)
           \/ mon_progress(k)
           \/ mon_wait(k)
           \/ mon_waited(k)
           \/ mon_final(k)
           \/ mon_set(k)
           \/ mon_notify_ui(k)
           \/ mon_finally(k)
           \/ child_closes(k)
           \/ child_exits(k)

SpecUI == InitUI /\ [][NextUI]_vars

\* ------------------------------------------- MainWindow: one run to its end
\* The first run of a window with two tests in its tree; nobody stops it.
TestFU == <<"f", ":", ":", "u">>

\* The lines the child writes: their identifiers are keys of the tree.
RunToEndLines == {LineCollected, LineStart, LinePassed, LineFailedU}

InitRun ==
    /\ RunnerInit
    /\ item_map = <<TestFT, TestFU>>
    /\ node_status = <<"pending", "pending">>
    /\ treeCall = [id |-> <<>>, status |-> "pending", pre |-> node_status,
                   tier |-> "init"]
    /\ ui = NoSignals(2)

NextRun ==
    \/ (nruns = 0 /\ run_selected_tests)
    \/ start_popen_ok
    \/ start_thread
    \/ start_set
    \/ start_notify_ui
    \/ qt_dispatch
    \/ \E k \in Runs :
           \/ mon_check(k)
           \/ mon_iter(k)
           \/ \E l \in RunToEndLines : mon_read_line_logged(k, l)
           \/ mon_read_eof(k)
           \/ mon_parse_ui(k)
           \/ mon_completed_ui(k)
           \/ mon_progress(k)
           \/ mon_wait(k)
           \/ mon_waited(k)
           \/ mon_final(k)
           \/ mon_set(k)
           \/ mon_notify_ui(k)
           \/ mon_finally(k)
           \/ child_closes(k)
           \/ child_exits(k)

SpecRun == InitRun /\ [][NextRun]_vars

\* ------------------------------------------- operations on bounded inputs
\* A filter that lets a path through each time it comes.
UniqueTestsKeepsAll(selected_tests) ==
    LET HasIt(test_path) == HasSep(test_path)
    IN  SelectSeq(selected_tests, HasIt)

\* The loop of run_selected_tests over selected_tests: a path is appended
\* to unique_tests unless it was appended before or has no '::'.
UniqueTests(selected_tests) ==
    LET numbered == [i \in 1..Len(selected_tests) |->
                        [i |-> i, test_path |-> selected_tests[i]]]
        Kept(c) == /\ ~\E j \in 1..(c.i - 1) : selected_tests[j] = c.test_path
                   /\ HasSep(c.test_path)
        kept == SelectSeq(numbered, Kept)
    IN  [j \in 1..Len(kept) |-> kept[j].test_path]

\* run_selected_tests() of a window whose tree has the nodes 'nodes' below
\* its root, in the order of the traversal, each with its full path and
\* with its 'selected'. get_selected_tests() collects the full paths of the
\* selected class and function nodes; start_tests() is called with the
\* filtered list unless one of the two lists is empty, and the runner, if
\* idle, goes on to spawn the child.
run_selected_tests_of(nodes) ==
    LET Collected(node) == node.selected /\ IsTestNode(node.path)
        collected == SelectSeq(nodes, Collected)
        selected_tests == [j \in 1..Len(collected) |-> collected[j].path]
        unique_tests == UniqueTests(selected_tests)
    IN  /\ cpc = "idle"
        /\ treeCall' = [id |-> <<>>, status |-> "pending",
                        pre |-> node_status, tier |-> "selected",
                        nodes |-> nodes]
        /\ IF selected_tests # <<>> /\ unique_tests # <<>>
           THEN IF IsIdle(state)
                THEN /\ nruns < MaxRuns
                     /\ cpc' = "start_popen"
                     /\ clocal' = [clocal EXCEPT !.n = Len(unique_tests),
                                                 !.paths = unique_tests]
                     /\ obs' = [obs EXCEPT !.ret = "none"]
                ELSE /\ obs' = [obs EXCEPT !.ret = "start_refused"]
                     /\ UNCHANGED <<cpc, clocal>>
           ELSE UNCHANGED <<cpc, clocal, obs>>
        /\ UNCHANGED <<state, process, progress, notes, signals, nruns,
                       child, mon, seen, item_map, node_status, ui>>

\* _force_kill_process applied to every child and its descendants, and
\* run_selected_tests to every tree of up to MaxNodes nodes, a path twice
\* in some.
NextApply ==
    \/ force_kill_process
    \/ \E nodes \in UNION {[1..n -> [path : Keys, selected : BOOLEAN]] :
                              n \in 0..MaxNodes} :
          run_selected_tests_of(nodes)

SpecApply == Init /\ [][NextApply]_vars

\* ------------------------------------------------- claims on the test tree
\* The last step was a call of update_test_status.
IsUpdate == treeCall.tier \in {"exact", "partial", "name", "none"}

\* The statuses are those before the call but for item i, which has the
\* status of the call.
OnlyItemUpdated(i) ==
    node_status = [treeCall.pre EXCEPT ![i] = treeCall.status]

\* A key equals the identifier of the call.
SomeKeyEquals(id) == \E i \in 1..Len(item_map) : item_map[i] = id

\* The final '::' segment of a path (all of it without '::').
FinalSegment(path) == LastPart(SplitSep(path))

\* The file name of a path: the last '/' component of what precedes the
\* first '::'.
FileName(path) == AfterLastSlash(SplitSep(path)[1])

\* The key has the final segment and the file name of the identifier.
SameTestSameFile(id, key) ==
    /\ FinalSegment(id) = FinalSegment(key)
    /\ FileName(id) = FileName(key)

\* The same, for an identifier and a key that both contain '::'.
StructuralKey(id, key) ==
    /\ HasSep(id)
    /\ HasSep(key)
    /\ SameTestSameFile(id, key)

\* The key ends with '::' and the final segment of the identifier.
SuffixKey(id, key) == EndsWith(key, <<":", ":">> \o FinalSegment(id))

\* C8: when the identifier equals a key of the index, the status is set on
\* the node of that key and on no other node, whatever other keys match
\* structurally or by suffix.
C8_ExactMatchWins ==
    (IsUpdate /\ SomeKeyEquals(treeCall.id)) =>
        \E i \in 1..Len(item_map) :
            item_map[i] = treeCall.id /\ OnlyItemUpdated(i)

\* C8 witness: the identifier equals the second key while the first key
\* matches it structurally and by suffix; only the second node is updated.
C8_Witness ==
    /\ item_map = <<PathCBx, PathABx>>
    /\ treeCall.id = PathABx
    /\ treeCall.status = "passed"
    /\ treeCall.pre = <<"pending", "pending">>
    /\ node_status = <<"pending", "passed">>

\* C9 as stated: when no key equals the identifier and some key has the
\* identifier's final '::' segment and file name, the status is set on the
\* node of such a key.
C9_Original ==
    ( /\ IsUpdate
      /\ ~SomeKeyEquals(treeCall.id)
      /\ \E i \in 1..Len(item_map) : SameTestSameFile(treeCall.id, item_map[i]) )
    => \E i \in 1..Len(item_map) :
           SameTestSameFile(treeCall.id, item_map[i]) /\ OnlyItemUpdated(i)

\* C9 amended: when no key equals the identifier and some key that, like
\* the identifier, contains '::' has the identifier's final '::' segment and
\* file name, the status is set on the node of such a key and on no other;
\* the directory prefix plays no part.
C9_StructuralMatch ==
    ( /\ IsUpdate
      /\ ~SomeKeyEquals(treeCall.id)
      /\ \E i \in 1..Len(item_map) : StructuralKey(treeCall.id, item_map[i]) )
    => \E i \in 1..Len(item_map) :
           StructuralKey(treeCall.id, item_map[i]) /\ OnlyItemUpdated(i)

\* C9 witness: z/b::x equals no key; d::x has another file name, c/b::x has
\* the file name and the test name under another directory and is updated.
C9_Witness ==
    /\ item_map = <<PathDx, PathCBx, PathABx>>
    /\ treeCall.id = IdZBx
    /\ treeCall.status = "passed"
    /\ treeCall.pre = <<"pending", "pending", "pending">>
    /\ node_status = <<"pending", "passed", "pending">>

\* C10: the match by suffix is used only when no key equals the identifier
\* and no key matches it structurally, it is used whenever then some key
\* ends with '::' and the identifier's final segment, and it sets the
\* status on the node of such a key and on no other.
C10_SuffixMatchLast ==
    IsUpdate =>
        LET exact == SomeKeyEquals(treeCall.id)
            structural == \E i \in 1..Len(item_map) :
                              StructuralKey(treeCall.id, item_map[i])
            suffix == \E i \in 1..Len(item_map) :
                          SuffixKey(treeCall.id, item_map[i])
        IN  /\ treeCall.tier = "name" => (~exact /\ ~structural)
            /\ treeCall.tier = "name" =>
                   \E i \in 1..Len(item_map) :
                       SuffixKey(treeCall.id, item_map[i]) /\ OnlyItemUpdated(i)
            /\ (~exact /\ ~structural /\ suffix) => treeCall.tier = "name"

\* C10 witness: the bare identifier x equals no key and matches none
\* structurally; d::x ends with ::x and is updated.
C10_Witness ==
    /\ item_map = <<PathAB, PathDx>>
    /\ treeCall.id = IdX
    /\ treeCall.tier = "name"
    /\ treeCall.status = "passed"
    /\ treeCall.pre = <<"pending", "pending">>
    /\ node_status = <<"pending", "passed">>

\* --------------------------------------------------- claims on the runner
\* No thread of the runner is active: the caller is in no call and every
\* monitoring thread that was started has ended.
Quiescent ==
    /\ cpc = "idle"
    /\ \A k \in Runs : mon[k].pc \in {"none", "done", "returned"}

\* Every child that was spawned has exited.
AllExited == \A k \in Runs : child[k].st \in {"none", "exited"}

\* The child the last termination request went to.
LastTerminated ==
    LET i == CHOOSE j \in 1..Len(signals) :
                 /\ signals[j].sig = "term"
                 /\ \A m \in (j + 1)..Len(signals) : signals[m].sig # "term"
    IN  signals[i].to

\* C1: when stop_tests() is never called, once the output of every child
\* has ended and the child has exited, and the threads have run to their
\* end, the runner is idle.
C1_IdleAfterNaturalEnd ==
    ( /\ ~obs.stopCalled
      /\ ~obs.launchFailed
      /\ nruns >= 1
      /\ Quiescent
      /\ AllExited )
    => state = "idle"

\* C2: the monitoring thread of every successful start_tests() reads the
\* output of its child up to the end of the stream: none ends before.
C2_EveryRunReadToEnd ==
    \A k \in Runs : mon[k].pc \in {"done", "returned"} => obs.eof[k]

\* The monitoring thread has notified the final state of a run.
FinalStateNotified ==
    \E i \in 1..Len(notes) : notes[i] \in {"idle", "stopped", "error"}

\* C3: in the first run, after stop_tests() was accepted and sent the
\* termination request, once the child has exited, the monitoring thread
\* has set and notified its final state and the threads have run to their
\* end, the runner is stopped.
C3_StoppedAfterStop ==
    ( /\ obs.stopAccepted
      /\ "term" \in obs.stopTrace
      /\ FinalStateNotified
      /\ nruns = 1
      /\ Quiescent
      /\ AllExited )
    => state = "stopped"

\* C4 as stated: the thread that calls stop_tests() never executes the
\* bounded wait for the child nor the force kill.
C4_Original == cpc \notin {"stop_waiting", "fk_check", "fk_kill", "fk_wait"}

\* C4 amended: stop_tests() runs the bounded wait and the escalation on the
\* caller's thread: once it has sent the termination request it returns
\* only after its wait has seen the child exit or after it has called the
\* force kill.
C4_StopWaitsOnCaller ==
    (obs.ret = "stop_returned" /\ "term" \in obs.stopTrace) =>
        \/ "wait_ok" \in obs.stopTrace /\ child[LastTerminated].st = "exited"
        \/ "force_kill" \in obs.stopTrace

\* C4 witness: stop_tests() has returned after the wait timed out and the
\* caller's thread killed the child.
C4_Witness ==
    /\ obs.ret = "stop_returned"
    /\ {"term", "timeout", "force_kill", "killed"} \subseteq obs.stopTrace
    /\ signals = <<[sig |-> "term", to |-> 1], [sig |-> "kill", to |-> 1]>>

\* C5: a start_tests() call made while the runner is not idle returns
\* failure and changes neither the state, the notifications, the children,
\* the process handle, the progress nor the threads.
C5_RefusedStartChangesNothing ==
    [][ (state # "idle" /\ \E n \in 0..MaxPaths : start_tests(n)) =>
            /\ obs'.ret = "start_refused"
            /\ cpc' = "idle"
            /\ UNCHANGED <<state, process, progress, notes, signals, nruns,
                           child, mon>> ]_vars

\* C5 witness: start_tests() was refused while a run was going on.
C5_Witness ==
    /\ obs.ret = "start_refused"
    /\ state = "running"
    /\ process = 1
    /\ nruns = 1

\* No monitoring thread has a line in hand.
BetweenLines == \A k \in Runs : mon[k].line = <<>>

\* C6: between two lines, completed_tests is the number of test results
\* processed in the run and the sum of the four status counters.
C6_CompletedCountsResults ==
    BetweenLines =>
        /\ progress.completed = obs.finished
        /\ progress.completed =
               progress.passed + progress.failed + progress.skipped
                   + progress.error

\* C6 witness: two lines were processed, one passed and one error result.
C6_Witness ==
    /\ BetweenLines
    /\ obs.finished = 2
    /\ progress.completed = 2
    /\ progress.passed = 1
    /\ progress.error = 1

\* C7: no reader of the progress sees a status counter incremented while
\* completed_tests is not.
C7_NoTornRead ==
    seen.completed = seen.passed + seen.failed + seen.skipped + seen.error

\* ------------------------------------------------- what a line brings about
\* The monitoring thread k did ev for the line it read last.
TraceHas(k, ev) ==
    \E i \in 1..Len(mon[k].trace) : mon[k].trace[i].ev = ev

\* The line the monitoring thread k read last, as it was processed.
LastLine(k) == RStrip(mon[k].trace[1].arg)

\* C11: a line that matches the test-start pattern brings about no
\* on_test_result call and no change of the counters, and, once it is done,
\* one on_test_started call with the identifier the start pattern captured.
C11_StartBeforeOutcome ==
    \A k \in Runs :
        (mon[k].trace # <<>> /\ Matches(LastLine(k), WordStart)) =>
            /\ ~TraceHas(k, "on_test_result")
            /\ Counters(progress) = mon[k].before
            /\ mon[k].pc = "read" =>
                   /\ Len(mon[k].trace) = 3
                   /\ mon[k].trace[3] =
                          Effect("on_test_started",
                                 Group1(LastLine(k), WordStart), "none")

\* C11 witness: a line that matches the start pattern and the pattern of
\* PASSED is done, and on_test_started was called for it.
C11_Witness ==
    \E k \in Runs :
        /\ mon[k].pc = "read"
        /\ mon[k].trace # <<>>
        /\ mon[k].trace[1].arg = LinePassedThenDots
        /\ Matches(LastLine(k), WordPassed)
        /\ TraceHas(k, "on_test_started")

\* C12: no line brings about both a test event (on_test_started or
\* on_test_result) and the assignment of total_tests.
C12_AtMostOneEvent ==
    \A k \in Runs :
        ~ /\ TraceHas(k, "on_test_started") \/ TraceHas(k, "on_test_result")
          /\ TraceHas(k, "total_tests")

\* C13: for every line read, on_output_line is called once, with the text
\* of the line as it was read.
C13_OutputLineForEveryLine ==
    \A k \in Runs :
        mon[k].trace # <<>> =>
            /\ Len(mon[k].trace) >= 2
            /\ mon[k].trace[2] =
                   Effect("on_output_line", mon[k].trace[1].arg, "none")
            /\ \A i \in 3..Len(mon[k].trace) :
                   mon[k].trace[i].ev # "on_output_line"

\* C14: a monitoring thread that has met a raising observer still reads its
\* child's output to the end, and the runner is not in the error state.
C14_LineFailureDoesNotAbort ==
    \A k \in Runs :
        (obs.raised /\ mon[k].pc = "done") =>
            /\ obs.eof[k]
            /\ state # "error"

\* ------------------------------------------------------ stopping the runner
\* s is an initial part of t.
IsPrefix(s, t) == Len(s) <= Len(t) /\ SubSeq(t, 1, Len(s)) = s

\* The number of the entries of seq after the first n that satisfy in.
CountAfter(seq, n, in) ==
    Cardinality({i \in (n + 1)..Len(seq) : seq[i] \in in})

\* C16: on_state_changed is called with the states in the order in which
\* the state took them, and once every thread has run to its end the state
\* notified last is the state of the runner.
C16_NotifiedInOrder ==
    /\ IsPrefix(notes, obs.changes)
    /\ (Quiescent /\ notes # <<>>) => notes[Len(notes)] = state

\* The termination requests sent since stop_tests() was accepted last.
TermsSinceStop ==
    CountAfter(signals, obs.sigMark, {TermSignal(k) : k \in Runs})

\* C17: a stop_tests() call that follows a stop_tests() call accepted in
\* the running state changes nothing and sends nothing, and the two calls
\* have made one change to the stopping state, one notification of it and
\* sent one termination request (none only when no child is alive).
C17_StopTwice ==
    [][ (obs.ret = "stop_returned" /\ stop_tests) =>
            /\ obs'.ret = "stop_noop"
            /\ cpc' = "idle"
            /\ UNCHANGED <<state, process, progress, notes, signals, child,
                           mon>>
            /\ CountAfter(obs.changes, obs.changeMark, {"stopping"}) = 1
            /\ CountAfter(notes, obs.noteMark, {"stopping"}) = 1
            /\ \/ TermsSinceStop = 1
               \/ TermsSinceStop = 0 /\ AllExited ]_vars

\* C18: a stop_tests() call made while the runner is not running returns
\* at once and changes neither the state, the process handle, the progress,
\* the notifications nor the signals sent.
C18_StopNotRunningIsNoop ==
    [][ (state # "running" /\ stop_tests) =>
            /\ obs'.ret = "stop_noop"
            /\ cpc' = "idle"
            /\ UNCHANGED <<state, process, progress, notes, signals, child,
                           mon>> ]_vars

\* C18 witness: stop_tests() was called and returned at once while the
\* runner was stopping, after a termination request.
C18_Witness ==
    /\ obs.ret = "stop_noop"
    /\ state = "stopping"
    /\ cpc = "idle"
    /\ signals = <<TermSignal(1)>>

\* C19: a kill is sent to a child only after the termination request was
\* sent to it, and a bounded wait that timed out is followed by the call of
\* _force_kill_process, which kills the child unless the handle is gone,
\* the child has exited or the kill fails.
C19_TermBeforeKill ==
    /\ \A i \in 1..Len(signals) :
           signals[i].sig = "kill" =>
               \E j \in 1..(i - 1) : signals[j] = TermSignal(signals[i].to)
    /\ "timeout" \in obs.stopTrace =>
           /\ "term" \in obs.stopTrace
           /\ "force_kill" \in obs.stopTrace
           /\ \/ cpc \in {"fk_check", "fk_kill", "fk_wait"}
              \/ obs.stopTrace \cap
                     {"killed", "fk_no_process", "fk_failed", "fk_waited"}
                         # {}

\* C19 witness: the wait timed out and the kill followed the termination
\* request; the caller waits for the child to die.
C19_Witness ==
    /\ cpc = "fk_wait"
    /\ "timeout" \in obs.stopTrace
    /\ signals = <<TermSignal(1), KillSignal(1)>>

\* C20: the state becomes idle or stopped only when every child that was
\* spawned has exited.
C20_FinalStateAfterExit ==
    [][ (state' # state /\ state' \in {"idle", "stopped"}) =>
            \A k \in 1..nruns : child[k].st = "exited" ]_vars

\* C20 witness: the force kill failed, the child exited later, and the
\* runner is stopped.
C20_Witness ==
    /\ state = "stopped"
    /\ "fk_failed" \in obs.stopTrace
    /\ child[1].st = "exited"
    /\ nruns = 1

\* --------------------------------------------------- the tree during a run
\* C15: the status of every test node is the one the reset of the run in
\* progress gave it or one set by an event of that run: no event was
\* applied before the reset of its run (the reset would overwrite it) and
\* none of an earlier run after it.
C15_ResetBeforeRunEvents ==
    \A i \in 1..Len(ui.by) : ui.by[i] \in {0, ui.epoch}

\* ------------------------------------------------------ the process handle
\* C21: the process handle is set only while the runner is running or
\* stopping.
C21_HandleOnlyWhileActive ==
    process # 0 => state \in {"running", "stopping"}

\* C22: when start_tests() has returned False because the child could not
\* be spawned, the runner is in the error state and has notified it, no
\* monitoring thread was started for the attempt and there is no process
\* handle.
C22_SpawnFailure ==
    obs.ret = "start_false" =>
        /\ state = "error"
        /\ \E i \in 1..Len(notes) : notes[i] = "error"
        /\ \A k \in Runs : k > nruns => mon[k].pc = "none"
        /\ process = 0

\* ------------------------------------------- a failure of the monitoring
\* The monitoring thread of run k is in the except clause of
\* _monitor_process or behind it.
Failing(k) ==
    mon[k].target = "error" /\ mon[k].pc \in {"set", "notify", "finally"}

\* The slot of the state_changed signal for ERROR is the next to run.
ErrorSlotNext ==
    /\ cpc = "idle"
    /\ ui.q # <<>>
    /\ Head(ui.q).sig = "state_changed"
    /\ Head(ui.q).status = "error"

\* C23: when the monitoring loop fails with an exception the runner's state
\* becomes ERROR, and neither the step that fails, nor the steps of the
\* except clause and of the finally, nor the slot the window runs for ERROR
\* change a counter of the progress or the status of a node of the tree.
C23_FailureKeepsProgress ==
    [][/\ \A k \in Runs :
             /\ (~Failing(k) /\ Failing(k)') =>
                    UNCHANGED <<progress, node_status>>
             /\ (Failing(k) /\ mon'[k] # mon[k]) =>
                    UNCHANGED <<progress, node_status>>
             /\ (Failing(k) /\ mon[k].pc = "set" /\ mon'[k] # mon[k]) =>
                    state' = "error"
       /\ (ErrorSlotNext /\ ui'.q = Tail(ui.q)) =>
              UNCHANGED <<progress, node_status>>]_vars

\* Run k has failed in the middle of its output, after a test result was
\* counted and shown in the tree, and the window has run its slot for ERROR.
C23_Witness ==
    /\ state = "error"
    /\ progress.passed = 1
    /\ progress.completed = 1
    /\ node_status[1] = "passed"
    /\ ui.q = <<>>
    /\ \E i \in 1..Len(notes) : notes[i] = "error"

\* ------------------------------------------------ the progress of a run
\* C24: once a line that brought about on_test_started(id) is done,
\* current_test is id, total_tests was not assigned and the counters are
\* those from before the line.
C24_StartedSetsCurrent ==
    \A k \in Runs :
        (mon[k].pc = "read" /\ TraceHas(k, "on_test_started")) =>
            /\ \E i \in 1..Len(mon[k].trace) :
                   /\ mon[k].trace[i].ev = "on_test_started"
                   /\ progress.current = mon[k].trace[i].arg
            /\ ~TraceHas(k, "total_tests")
            /\ Counters(progress) = mon[k].before

C26_FreshProgress ==
    \A k \in Runs :
        mon[k].pc = "check" =>
            /\ progress.inst = k
            /\ progress.completed = 0
            /\ progress.passed = 0
            /\ progress.failed = 0
            /\ progress.skipped = 0
            /\ progress.error = 0
            /\ progress.current = NoTest

\* The monitoring thread of the second run begins, and the progress its
\* start replaced had test results counted.
C26_Witness ==
    /\ nruns = 2
    /\ mon[2].pc = "check"
    /\ obs.hadResults

\* C27: as long as the progress is the instance of one run, no step makes
\* completed_tests or one of the four status counters smaller.
C27_CountersNeverDecrease ==
    [][progress'.inst = progress.inst =>
          /\ progress'.completed >= progress.completed
          /\ progress'.passed >= progress.passed
          /\ progress'.failed >= progress.failed
          /\ progress'.skipped >= progress.skipped
          /\ progress'.error >= progress.error]_vars

\* The second run has counted two test results, after a first run that had
\* counted some.
C27_Witness ==
    /\ progress.inst = 2
    /\ progress.completed = 2
    /\ progress.passed = 2
    /\ obs.hadResults

\* C28: progress_percentage divides by no 0; it is 0 when total_tests is 0,
\* whatever completed_tests is, and completed_tests / total_tests * 100
\* otherwise, which is more than 100 when completed_tests is more than
\* total_tests.
C28_Percentage ==
    LET pct == ProgressPercentage(progress)
    IN  /\ pct.den # 0
        /\ progress.total = 0 => pct.num = 0
        /\ progress.total # 0 =>
               pct.num * progress.total = progress.completed * 100 * pct.den
        /\ (progress.total # 0 /\ progress.completed > progress.total) =>
               pct.num > 100 * pct.den

\* A test result was counted and the line 'collected 0 items' came after
\* it: total_tests is 0 with completed_tests at 1.
C28_Witness ==
    \E k \in Runs :
        /\ mon[k].pc = "read"
        /\ mon[k].trace # <<>>
        /\ LastLine(k) = LineCollectedNone
        /\ progress.total = 0
        /\ progress.completed = 1

\* ------------------------------------------ an identifier without a node
\* C29: a call of update_test_status whose identifier no key matches, by
\* none of the three matches, returns with the status of every node as it
\* was; and the call that comes next after such a call, when a key matches
\* its identifier, gives its status to the item the lookup finds and to no
\* other.
C29_UnmatchedChangesNothing ==
    [][/\ (treeCall' # treeCall /\ treeCall'.tier = "none") =>
              /\ node_status' = node_status
              /\ item_map' = item_map
       /\ (/\ treeCall.tier = "none"
           /\ treeCall' # treeCall
           /\ treeCall'.tier \in {"exact", "partial", "name"}) =>
              LET i == IF ExactItem(item_map, treeCall'.id) # 0
                       THEN ExactItem(item_map, treeCall'.id)
                       ELSE IF treeCall'.tier = "partial"
                       THEN FirstItem({j \in 1..Len(item_map) :
                               PartialMatch(treeCall'.id, item_map[j])})
                       ELSE FirstItem({j \in 1..Len(item_map) :
                               NameMatch(TestName(treeCall'.id),
                                         item_map[j])})
              IN  /\ i # 0
                  /\ node_status' = [node_status EXCEPT ![i] = treeCall'.status]
      ]_vars

\* A call with an identifier no key matches has returned while a node of
\* the tree had a status from an earlier call.
C29_Witness ==
    /\ treeCall.tier = "none"
    /\ \E i \in 1..Len(item_map) : node_status[i] \in {"passed", "failed"}
    /\ node_status = treeCall.pre

\* ---------------------------------------------------- a run read to its end
\* The lines of the run with a test result of the status.
ResultLines(status) ==
    {j \in 1..Len(obs.log) :
        /\ ParseTestResult(obs.log[j]).kind = "finished"
        /\ ParseTestResult(obs.log[j]).status = status}

\* The lines of the run with a test result for the identifier.
ResultLinesOf(id) ==
    {j \in 1..Len(obs.log) :
        /\ ParseTestResult(obs.log[j]).kind = "finished"
        /\ ParseTestResult(obs.log[j]).id = id}

\* The lines of the run with a collection count.
CountLines == {j \in 1..Len(obs.log) : CollectedMatches(obs.log[j])}

\* The largest member of a set of line numbers that is not empty.
LastOf(js) == CHOOSE j \in js : \A i \in js : i <= j

\* The first run was read to the end of its output, its monitoring thread
\* is done, start_tests has returned and the window has run the slot of
\* every signal.
RunAtEnd ==
    /\ nruns = 1
    /\ obs.eof[1]
    /\ mon[1].pc = "done"
    /\ cpc = "idle"
    /\ ui.q = <<>>

\* What the progress and the tree show of the lines of the run at its end.
RunAccountedFor ==
    /\ CountLines # {} =>
           progress.total = CollectedCount(obs.log[LastOf(CountLines)])
    /\ progress.passed = Cardinality(ResultLines("passed"))
    /\ progress.failed = Cardinality(ResultLines("failed"))
    /\ progress.skipped = Cardinality(ResultLines("skipped"))
    /\ progress.error = Cardinality(ResultLines("error"))
    /\ progress.completed =
           progress.passed + progress.failed + progress.skipped
             + progress.error
    /\ \A i \in 1..Len(item_map) :
           ResultLinesOf(item_map[i]) # {} =>
               node_status[i] =
                   ParseTestResult(
                       obs.log[LastOf(ResultLinesOf(item_map[i]))]).status

\* C30: at the end of a run that nobody stopped and whose identifiers are
\* keys of the tree, total_tests is the last collection count, the
\* counters are the numbers of result lines of each status, every node named
\* has the status of its last result line, and the runner is idle.
C30_RunToEnd ==
    RunAtEnd => (RunAccountedFor /\ state = "idle")

\* ------------------------------------------------- the order within a run
\* The place of a thing the runner does for a line in the order the claim
\* gives: the read, on_output_line, the test event, the progress.
Rank(ev) ==
    CASE ev = "readline" -> 0
      [] ev = "on_output_line" -> 1
      [] ev \in {"on_test_started", "on_test_result"} -> 2
      [] OTHER -> 3

\* What thread k did for its line is in the order of the ranks, with one
\* read, one on_output_line at most and one test event at most.
InOrder(k) ==
    LET t == mon[k].trace
    IN  /\ \A i, j \in 1..Len(t) : i < j => Rank(t[i].ev) <= Rank(t[j].ev)
        /\ \A i, j \in 1..Len(t) :
               (i < j /\ Rank(t[i].ev) = Rank(t[j].ev)) => Rank(t[i].ev) = 3

\* C31: a monitoring thread reads a line only when it has nothing left to
\* do for the line before, and what it does for a line comes in the order
\* on_output_line, then on_test_started or on_test_result, then
\* on_progress_update.
C31_OneLineAtATime ==
    [][\A k \in Runs :
          /\ InOrder(k)'
          /\ (mon[k].h # 0 /\ mon'[k].h = mon[k].h
                /\ child'[mon[k].h].lines > child[mon[k].h].lines) =>
                 /\ mon[k].pc = "read"
                 /\ mon[k].line = <<>>
                 /\ mon'[k].trace[1].ev = "readline"
                 /\ Len(mon'[k].trace) <= 2]_vars

\* The second line of a run, a test result, is done: on_output_line,
\* on_test_result and on_progress_update were called for it.
C31_Witness ==
    \E k \in Runs :
        /\ mon[k].pc = "read"
        /\ child[1].lines = 2
        /\ Len(mon[k].trace) = 4
        /\ mon[k].trace[3].ev = "on_test_result"
        /\ mon[k].trace[4].ev = "on_progress_update"

\* ------------------------------------------------------- the command line
\* C32: the command built for a list of paths and a list of extra
\* arguments is the interpreter, '-m', 'pytest', the paths in their order,
\* '--tb=short', '-v', and the extra arguments in their order; with no
\* extra arguments the command ends at '-v'.
C32_Command ==
    clocal.cmd # <<>> =>
        LET cmd == clocal.cmd
            np == Len(clocal.paths)
            na == Len(clocal.args.val)
        IN  /\ Len(cmd) = 5 + np + na
            /\ cmd[1] = "python" /\ cmd[2] = "-m" /\ cmd[3] = "pytest"
            /\ \A i \in 1..np : cmd[3 + i] = clocal.paths[i]
            /\ cmd[4 + np] = "--tb=short"
            /\ cmd[5 + np] = "-v"
            /\ \A i \in 1..na : cmd[5 + np + i] = clocal.args.val[i]

\* A command was built for two paths and the two extra arguments -x, -v.
C32_Witness ==
    /\ clocal.paths = <<"b.py::t", "a.py">>
    /\ clocal.args = SomeArgs(<<"-x", "-v">>)
    /\ Len(clocal.cmd) = 9

\* ------------------------------------------------- the index after a refresh
\* The last step was a set_root_node.
IsPopulate == treeCall.tier = "populate"

\* The entries of the index with the path of node i of the new tree.
EntriesOf(i) == {j \in 1..Len(item_map) : item_map[j] = treeCall.nodes[i]}

\* No entry of the index has a path that is not one of the new tree, and
\* no node has a status from before.
NothingLeft ==
    /\ \A j \in 1..Len(item_map) :
           \E i \in 1..Len(treeCall.nodes) : treeCall.nodes[i] = item_map[j]
    /\ \A j \in 1..Len(item_map) : node_status[j] = "pending"

C34_Absorbing ==
    [][(state \in {"stopped", "error"}) =>
          /\ state' = state
          /\ nruns' = nruns
          /\ (cpc = "idle" /\ obs'.ret # obs.ret) =>
                 obs'.ret \in {"start_refused", "stop_noop"}]_vars

\* ------------------------------------------------- the threads of two runs
\* The monitoring thread k is in its loop over the lines of its child.
InLoop(k) == mon[k].pc \in {"read", "parse", "completed", "progress"}

\* The monitoring thread k has set its final state.
HasSetFinal(k) == mon[k].pc \in {"notify", "finally", "done"}

\* C35: a monitoring thread that has set its final state does not go back
\* to its loop over the lines, and while a monitoring thread is in its loop
\* no later run has been launched and the progress is the one of its run.
C35_NoLateLine ==
    [][\A k \in Runs :
          /\ HasSetFinal(k) => ~InLoop(k)'
          /\ InLoop(k)' => (nruns' = k /\ progress'.inst = k)]_vars

\* The thread of the second run has a line in hand while the thread of the
\* first run, which has set its final state, has not ended yet.
C35_Witness ==
    /\ mon[1].pc = "finally"
    /\ mon[2].pc = "parse"
    /\ progress.inst = 2


\* C36: an update_test_status call for a test-started or test-result event
\* changes the status of at most one node, the first in index order that
\* matches in the winning tier, and leaves the index (the paths), every
\* other status and the selection of every node as they were.
C36_OneNodeOnly ==
    [][(treeCall'.tier \in {"exact", "partial", "name", "none"}) =>
          LET id == treeCall'.id
              n == Len(item_map)
              exact == ExactItem(item_map, id)
              partial == FirstItem({i \in 1..n : PartialMatch(id, item_map[i])})
              name == FirstItem({i \in 1..n :
                                    NameMatch(TestName(id), item_map[i])})
              target == IF exact # 0 THEN exact
                        ELSE IF partial # 0 THEN partial ELSE name
          IN  /\ item_map' = item_map
              /\ \A i \in 1..n : i # target => node_status'[i] = node_status[i]
              /\ ui'.selected = ui.selected]_vars


\* The outcomes in the order Passed, Failed, Skipped, Error, each with the
\* word of its pattern.
OutcomeOrder ==
    << [status |-> "passed", word |-> WordPassed],
       [status |-> "failed", word |-> WordFailed],
       [status |-> "skipped", word |-> WordSkipped],
       [status |-> "error", word |-> WordError] >>

\* The outcomes whose patterns match the line.
OutcomesOf(line) ==
    {j \in 1..Len(OutcomeOrder) : Matches(line, OutcomeOrder[j].word)}

\* The counters c with the counter of the outcome st and completed_tests
\* incremented.
CountedOnce(c, st) ==
    [f \in DOMAIN c |-> IF f \in {st, "completed"} THEN c[f] + 1 ELSE c[f]]

\* C37: a line that was processed as a test result has incremented the
\* counter of one outcome and no other, on_test_result was called with that
\* outcome, and the outcome is the first in the order Passed, Failed,
\* Skipped, Error whose pattern matches the line.
C37_OneOutcomeCounted ==
    \A k \in Runs :
        (mon[k].pc = "read" /\ TraceHas(k, "on_test_result")) =>
            LET matching == OutcomesOf(LastLine(k))
                first == CHOOSE j \in matching : \A i \in matching : j <= i
                st == OutcomeOrder[first].status
            IN  /\ matching # {}
                /\ Counters(progress) = CountedOnce(mon[k].before, st)
                /\ \A i \in 1..Len(mon[k].trace) :
                       mon[k].trace[i].ev = "on_test_result" =>
                           mon[k].trace[i].status = st

\* C37 witness: a line that matches the patterns of PASSED and of FAILED is
\* done; it was counted as passed and as nothing else.
C37_Witness ==
    \E k \in Runs :
        /\ mon[k].pc = "read"
        /\ mon[k].trace # <<>>
        /\ mon[k].trace[1].arg = LineFailedThenPassed
        /\ Cardinality(OutcomesOf(LastLine(k))) = 2
        /\ TraceHas(k, "on_test_result")
        /\ progress.passed = mon[k].before.passed + 1
        /\ progress.failed = mon[k].before.failed


\* A run was made and nothing of it is left to do: the calls have returned,
\* the monitoring threads have ended and the window has run the slot of
\* every signal.
AllDelivered ==
    /\ nruns > 0
    /\ cpc = "idle"
    /\ \A k \in Runs : mon[k].pc \in {"none", "returned", "done"}
    /\ ui.q = <<>>

\* C38: once a run is over and the runner is idle, stopped or in the error
\* state, no node of the tree has the status RUNNING.
C38_NoRunningLeft ==
    (AllDelivered /\ state \in {"idle", "stopped", "error"}) =>
        \A i \in 1..Len(item_map) : node_status[i] # "running"


\* _force_kill_process was applied.
ForceKilled == clocal.parent # "none"

\* The process i (0 for the child itself) was sent a kill.
WasKilled(i) == \E j \in 1..Len(signals) : signals[j] = KillSignal(i)

\* A kill has failed with something else than a process that is gone.
KillDenied ==
    \/ clocal.parent = "denied"
    \/ \E i \in 1..Len(clocal.children) : clocal.children[i] = "denied"

\* C39: the force kill kills the descendants before the child itself; a
\* descendant or a child that is gone already does not keep a process that
\* is alive from being killed; any other failure is logged, and the call
\* returns to the caller of stop_tests().
C39_KillsTheTree ==
    ForceKilled =>
        /\ \A j \in 1..Len(signals) : signals[j].to = 0 => j = Len(signals)
        /\ ~KillDenied =>
               /\ \A i \in 1..Len(clocal.children) :
                      clocal.children[i] = "alive" => WasKilled(i)
               /\ clocal.parent = "alive" => WasKilled(0)
        /\ KillDenied => "fk_failed" \in obs.stopTrace
        /\ obs.ret = "stop_returned"


\* run_selected_tests has called start_tests.
StartCalled == treeCall.tier = "selected" /\ cpc = "start_popen"

\* The place of the first selected class or function node with the path.
FirstNodeOf(test_path) ==
    CHOOSE i \in 1..Len(treeCall.nodes) :
        /\ treeCall.nodes[i].path = test_path
        /\ treeCall.nodes[i].selected
        /\ \A j \in 1..(i - 1) : ~ /\ treeCall.nodes[j].path = test_path
                                   /\ treeCall.nodes[j].selected

\* C40: the list run_selected_tests passes to start_tests is not empty, has
\* no path twice, has only paths with '::' of selected class or function
\* nodes, and has them in the order of the traversal of the tree.
C40_SelectedPaths ==
    StartCalled =>
        LET test_paths == clocal.paths
            n == Len(test_paths)
        IN  /\ n > 0
            /\ \A a, b \in 1..n : a # b => test_paths[a] # test_paths[b]
            /\ \A a \in 1..n :
                   /\ Contains(test_paths[a], <<":", ":">>)
                   /\ \E i \in 1..Len(treeCall.nodes) :
                          /\ treeCall.nodes[i].path = test_paths[a]
                          /\ treeCall.nodes[i].selected
                          /\ IsTestNode(treeCall.nodes[i].path)
            /\ \A a, b \in 1..n :
                   a < b => FirstNodeOf(test_paths[a]) < FirstNodeOf(test_paths[b])

\* C40 witness: two selected nodes have the same path, and start_tests was
\* called with the path once.
C40_Witness ==
    /\ StartCalled
    /\ Len(treeCall.nodes) = 2
    /\ treeCall.nodes[1] = [path |-> PathABx, selected |-> TRUE]
    /\ treeCall.nodes[2] = [path |-> PathABx, selected |-> TRUE]
    /\ clocal.paths = <<PathABx>>

=============================================================================
